---- MODULE Spec2Model ----
(***************************************************************************)
(* Verification model of the decision pipeline of src/ai/ai_engine.py:     *)
(* UnitConverter, PercentageCalculator, FeatureEngineering, RiskManager    *)
(* and AIEngine.decide with the engine state it keeps between calls;       *)
(* ModelEnsemble.load, AIEngine._determine_action and the functions of     *)
(* src/ai/reward-calculator.py are modelled as direct calls (SpecCalls).   *)
(*                                                                         *)
(* Python floats are modelled as decimal floating-point numbers            *)
(* [m |-> mantissa, e |-> exponent] standing for m * 10^e, normalised to a  *)
(* four-digit mantissa (1000 <= |m| <= 9999, or m = 0 and e = 0), rounded   *)
(* to nearest.  The one non-finite input the model carries is NaN.         *)
(***************************************************************************)
EXTENDS Integers, Sequences, FiniteSets, TLC

(***************************************************************************)
(* Decimal floating point                                                  *)
(***************************************************************************)
Pow10(n) ==
    CASE n = 0 -> 1 [] n = 1 -> 10 [] n = 2 -> 100 [] n = 3 -> 1000
      [] n = 4 -> 10000 [] n = 5 -> 100000 [] n = 6 -> 1000000
      [] n = 7 -> 10000000 [] n = 8 -> 100000000 [] n = 9 -> 1000000000

IAbs(i) == IF i < 0 THEN -i ELSE i

ISgn(i) == IF i < 0 THEN -1 ELSE IF i > 0 THEN 1 ELSE 0

Digits(a) ==
    IF a < 10 THEN 1 ELSE IF a < 100 THEN 2 ELSE IF a < 1000 THEN 3
    ELSE IF a < 10000 THEN 4 ELSE IF a < 100000 THEN 5
    ELSE IF a < 1000000 THEN 6 ELSE IF a < 10000000 THEN 7
    ELSE IF a < 100000000 THEN 8 ELSE IF a < 1000000000 THEN 9 ELSE 10

\* sgn * r * 10^e for a rounded mantissa r <= 10000
NormRounded(sgn, r, e) ==
    IF r > 9999 THEN [m |-> sgn * 1000, e |-> e + 1] ELSE [m |-> sgn * r, e |-> e]

\* sgn * a * 10^e for a > 0 of d digits
NormDigits(sgn, a, e, d) ==
    IF d > 4
    THEN NormRounded(sgn, (a + (Pow10(d - 4) \div 2)) \div Pow10(d - 4), e + (d - 4))
    ELSE [m |-> sgn * a * Pow10(4 - d), e |-> e - (4 - d)]

\* m * 10^e as a normalised four-digit decimal, rounded to nearest
Norm(m, e) ==
    IF m = 0 THEN [m |-> 0, e |-> 0]
    ELSE NormDigits(ISgn(m), IAbs(m), e, Digits(IAbs(m)))

F(m, e) == Norm(m, e)

\* float(i) of a Python int
FromInt(i) == Norm(i, 0)

ZERO == [m |-> 0, e |-> 0]

ONE == F(1, 0)

\* float('nan'): a value outside the normalised numbers
NaN == [m |-> 0, e |-> 1]

IsNaN(x) == x = NaN

\* The one element of a singleton set.  Val({ e(x) : x \in {v} }) computes v
\* once, names it x and yields e(x); nested bindings read from the innermost
\* (last) line outwards.
Val(S) == CHOOSE r \in S : TRUE

\* The operators below evaluate each argument once and compute on the values
Strict1(Op(_), x) == Val({Op(xv) : xv \in {x}})

Strict2(Op(_, _), x, y) == Val({Op(xv, yv) : xv \in {x}, yv \in {y}})

NegV(x) == [m |-> -x.m, e |-> x.e]

AbsV(x) == [m |-> IAbs(x.m), e |-> x.e]

AddV(x, y) ==
    IF x.m = 0 THEN y
    ELSE IF y.m = 0 THEN x
    ELSE IF x.e >= y.e
         THEN IF x.e - y.e > 5 THEN x ELSE Norm(x.m * Pow10(x.e - y.e) + y.m, y.e)
         ELSE IF y.e - x.e > 5 THEN y ELSE Norm(y.m * Pow10(y.e - x.e) + x.m, x.e)

SubV(x, y) == AddV(x, NegV(y))

MulV(x, y) == Norm(x.m * y.m, x.e + y.e)

DivV(x, y) ==
    Norm(ISgn(x.m) * ISgn(y.m) * ((IAbs(x.m) * 100000) \div IAbs(y.m)),
         x.e - y.e - 5)

MinV(x, y) == IF SubV(y, x).m < 0 THEN y ELSE x

MaxV(x, y) == IF SubV(y, x).m > 0 THEN y ELSE x

RECURSIVE ISqrtBetween(_, _, _)
ISqrtBetween(n, lo, hi) ==
    IF hi - lo <= 1 THEN lo
    ELSE IF ((lo + hi) \div 2) * ((lo + hi) \div 2) <= n
         THEN ISqrtBetween(n, (lo + hi) \div 2, hi)
         ELSE ISqrtBetween(n, lo, (lo + hi) \div 2)

ISqrt(n) == ISqrtBetween(n, 0, 31623)

SqrtV(x) ==
    IF x.m = 0 THEN ZERO
    ELSE IF (x.e % 2) = 1 THEN Norm(ISqrt(x.m * 100000), (x.e - 5) \div 2)
    ELSE Norm(ISqrt(x.m * 10000), (x.e - 4) \div 2)

OrV(x, y) == IF x.m = 0 /\ ~IsNaN(x) THEN y ELSE x

FNeg(x) == Strict1(NegV, x)

FAbs(x) == Strict1(AbsV, x)

FAdd(x, y) == Strict2(AddV, x, y)

FSub(x, y) == Strict2(SubV, x, y)

FMul(x, y) == Strict2(MulV, x, y)

\* x / y for y # 0
FDiv(x, y) == Strict2(DivV, x, y)

FLt(x, y) == FSub(x, y).m < 0

FLe(x, y) == FSub(x, y).m <= 0

FGt(x, y) == FSub(x, y).m > 0

FGe(x, y) == FSub(x, y).m >= 0

\* Python's min(a, b) and max(a, b) on finite floats
FMin(x, y) == Strict2(MinV, x, y)

FMax(x, y) == Strict2(MaxV, x, y)

\* np.clip(x, lo, hi)
FClip(x, lo, hi) == FMin(FMax(x, lo), hi)

\* np.sqrt(x) for x >= 0
FSqrt(x) == Strict1(SqrtV, x)

\* Python's "a or b" on floats: a unless it is zero
FOr(x, y) == Strict2(OrV, x, y)

(***************************************************************************)
(* Optional values and strings                                             *)
(***************************************************************************)
\* Python None / a present value
None == <<>>

Some(v) == <<v>>

\* "sub in s"
Contains(s, sub) ==
    \E i \in 1..(Len(s) - Len(sub) + 1) : SubSeq(s, i, i + Len(sub) - 1) = sub

(***************************************************************************)
(* CONFIG (EngineConfig)                                                   *)
(***************************************************************************)
MIN_POOL_LIQUIDITY == F(1000, 0)

DEFAULT_POOL_LIQUIDITY == F(1, 6)

DEFAULT_GAS_GWEI == F(50, 0)

GAS_LIMITS(action) ==
    CASE action = "rebalance" -> F(600, 3)
      [] action = "reduce" -> F(400, 3)
      [] action = "close" -> F(500, 3)
      [] action = "hold" -> ZERO
      [] OTHER -> F(500, 3)

TICK_SPACING_DEFAULT == 60

SAFETY_MAX_GAS_ETH == F(1, -2)

SAFETY_MAX_LOSS_PCT == F(5, -2)

FEATURE_CLIP == F(10, 0)

MIN_TICK_RANGE == ONE

\* ETH_PRICE_USD_FALLBACK: Optional[float] = None
ETH_PRICE_USD_FALLBACK == None


(***************************************************************************)
(* UnitConverter                                                           *)
(***************************************************************************)
\* value is a float (possibly NaN); None and strings do not occur in the model
to_float_safe(value) == Val({ IF IsNaN(v) THEN ZERO ELSE v : v \in {value} })

\* the ETH/USD price to_eth divides by: the argument, else the configured one
usd_price(eth_price_usd) ==
    IF eth_price_usd # None THEN eth_price_usd ELSE ETH_PRICE_USD_FALLBACK

\* to_eth raises ValueError exactly here
to_eth_raises(value, unit, eth_price_usd) ==
    /\ unit = "usd"
    /\ (usd_price(eth_price_usd) = None \/ usd_price(eth_price_usd)[1].m <= 0)
    /\ to_float_safe(value).m >= 0

USD_ERROR == "USD->ETH conversion requires eth_price_usd in call or CONFIG.ETH_PRICE_USD_FALLBACK"

\* to_eth where it returns
to_eth(value, unit, eth_price_usd) ==
    Val({ IF num.m < 0 THEN ZERO
          ELSE CASE unit = "wei" -> FDiv(num, F(1, 18))
                 [] unit = "gwei" -> FDiv(num, F(1, 9))
                 [] unit = "eth" -> num
                 [] unit = "usd" -> FDiv(num, usd_price(eth_price_usd)[1])
                 [] OTHER -> num
          : num \in {to_float_safe(value)} })

to_gwei(value, unit) ==
    Val({ IF num.m <= 0 THEN DEFAULT_GAS_GWEI
          ELSE CASE unit = "wei" -> FDiv(num, F(1, 9))
                 [] unit = "gwei" -> num
                 [] unit = "eth" -> FMul(num, F(1, 9))
                 [] OTHER -> num
          : num \in {to_float_safe(value)} })

(***************************************************************************)
(* _safe_division and PercentageCalculator                                 *)
(***************************************************************************)
safe_division(numerator, denominator, default) ==
    Val({ IF den.m = 0 \/ IsNaN(den) \/ IsNaN(num) THEN default ELSE FDiv(num, den)
          : num \in {numerator}, den \in {denominator} })

compute_deviation_pct(current, reference) ==
    Val({ IF ref.m = 0 \/ IsNaN(ref) \/ IsNaN(cur) THEN ZERO
          ELSE FMul(FDiv(FAbs(FSub(cur, ref)), FAbs(ref)), F(100, 0))
          : cur \in {current}, ref \in {reference} })

is_within_bounds(deviation_pct, threshold_pct) ==
    IF IsNaN(deviation_pct) \/ IsNaN(threshold_pct) THEN TRUE
    ELSE FLe(deviation_pct, threshold_pct)

\* abs(2*sqrt(r)/(1+r) - 1), the IL factor of a price ratio r > 0
il_factor_of(price_ratio) ==
    Val({ FAbs(FSub(FDiv(FMul(F(2, 0), FSqrt(r)), FAdd(ONE, r)), ONE))
          : r \in {price_ratio} })

(***************************************************************************)
(* FeatureEngineering                                                      *)
(*                                                                         *)
(* A MarketState is a record; state.present = FALSE stands for None, and   *)
(* so does state.position.present = FALSE.  state.extra carries the keys   *)
(* eth_price_usd (optional), currentTick and inRange (ticks are Python     *)
(* ints, kept as integers); the keys token0_price_eth, token1_price_eth,   *)
(* p_ref and threshold_pct are absent from every snapshot of the model.    *)
(***************************************************************************)
get_feature_names ==
    << "price_dev_24h", "price_dev_ref", "price_ratio_ref", "current_deviation",
       "within_bounds", "position_in_range", "dist_to_lower", "dist_to_upper",
       "liquidity_util", "total_value_normalized", "volatility_24h",
       "volatility_ratio", "fee_rate", "il_factor", "pool_liquidity_normalized",
       "volume_per_liquidity", "concentration_risk", "range_risk",
       "gas_normalized", "rebalance_urgency" >>

\* np.zeros(20)
zeros20 == [i \in 1..20 |-> ZERO]

\* clip_features without the np.clip step: nan_to_num alone
clip_features_unclipped(features) ==
    Val({ [i \in 1..Len(f) |-> to_float_safe(f[i])] : f \in {features} })

\* np.clip(np.nan_to_num(features), -FEATURE_CLIP, FEATURE_CLIP)
clip_features(features) ==
    Val({ [i \in 1..Len(f) |-> FClip(to_float_safe(f[i]), FNeg(FEATURE_CLIP), FEATURE_CLIP)]
          : f \in {features} })

\* an exception reaches the outer handler of extract_features
extract_features_fails(state) ==
    \/ ~state.present
    \/ ~state.position.present
    \/ to_eth_raises(state.current_price, state.price_unit, state.extra.eth_price_usd)
    \/ \E current_price_eth \in
             {to_eth(state.current_price, state.price_unit, state.extra.eth_price_usd)} :
          \/ to_eth_raises(FOr(state.twap_1h, current_price_eth), state.price_unit,
                           state.extra.eth_price_usd)
          \/ to_eth_raises(FOr(state.twap_24h, current_price_eth), state.price_unit,
                           state.extra.eth_price_usd)

\* lines 264-284, 328-335 and 366: the features computed from prices
price_features(state) ==
    Val({ Val({ Val({ Val({
        [price_dev_24h |-> price_dev_24h,
         price_dev_ref |-> compute_deviation_pct(current_price_eth, twap_24h_eth),
         price_ratio_ref |-> safe_division(current_price_eth, twap_24h_eth, ONE),
         current_deviation |-> current_deviation,
         il_factor |-> IF price_ratio.m > 0 THEN il_factor_of(price_ratio) ELSE ZERO,
         rebalance_urgency |-> FMin(FDiv(current_deviation, F(20, 0)), ONE)]
        : current_deviation \in
              { IF state.deviation_pct # None /\ state.deviation_pct[1].m > 0
                THEN state.deviation_pct[1] ELSE price_dev_24h } })
        : price_dev_24h \in {compute_deviation_pct(current_price_eth, twap_24h_eth)},
          price_ratio \in {safe_division(current_price_eth, twap_24h_eth, ONE)} })
        : twap_24h_eth \in
              { to_eth(FOr(state.twap_24h, current_price_eth), state.price_unit,
                       state.extra.eth_price_usd) } })
        : current_price_eth \in
              { to_eth(state.current_price, state.price_unit,
                       state.extra.eth_price_usd) } })

\* lines 289-300 and 351-359: the features computed from ticks
tick_features(state) ==
    Val({ Val({
        [position_in_range |->
             FClip(FDiv(FSub(current_tick, tick_lower), tick_range), ZERO, ONE),
         dist_to_lower |-> safe_division(FAbs(FSub(current_tick, tick_lower)),
                                         FMax(FAbs(tick_lower), ONE), ZERO),
         dist_to_upper |-> safe_division(FAbs(FSub(tick_upper, current_tick)),
                                         FMax(FAbs(tick_upper), ONE), ZERO),
         range_risk |->
             IF tick_range.m > 0 /\ tick_midpoint.m # 0
             THEN FMin(ONE, safe_division(ONE, FDiv(tick_range, FAbs(tick_midpoint)), ZERO))
             ELSE ZERO]
        : tick_range \in {FMax(MIN_TICK_RANGE, FAbs(FSub(tick_upper, tick_lower)))},
          tick_midpoint \in {FDiv(FAdd(tick_upper, tick_lower), F(2, 0))} })
        : current_tick \in {FromInt(state.extra.currentTick)},
          tick_lower \in {FromInt(state.position.lowerTick)},
          tick_upper \in {FromInt(state.position.upperTick)} })

\* lines 305-326 and 340-343: the features computed from balances and liquidity
\* (the legacy fallback: balances denominated in price_unit, any exception gives 0.0)
liquidity_features(state) ==
    Val({
        [total_value_normalized |-> safe_division(pos_val_eth, F(1, 6), ZERO),
         liquidity_util |-> safe_division(state.position.liquidity, pool_liquidity, ZERO),
         fee_rate |-> safe_division(FAdd(state.position.fees_earned_0,
                                         state.position.fees_earned_1),
                                    FMax(F(1, -9), pos_val_eth), ZERO),
         volume_per_liquidity |->
             safe_division(FMax(ZERO, state.volume_24h), pool_liquidity, ZERO),
         pool_liquidity_normalized |-> safe_division(pool_liquidity, F(1, 24), ZERO)]
        : pos_val_eth \in
              { IF \/ to_eth_raises(state.position.token0_balance, state.price_unit,
                                    state.extra.eth_price_usd)
                   \/ to_eth_raises(state.position.token1_balance, state.price_unit,
                                    state.extra.eth_price_usd)
                THEN ZERO
                ELSE FAdd(to_eth(state.position.token0_balance, state.price_unit,
                                 state.extra.eth_price_usd),
                          to_eth(state.position.token1_balance, state.price_unit,
                                 state.extra.eth_price_usd)) },
          pool_liquidity \in
              { FMax(MIN_POOL_LIQUIDITY,
                     FOr(state.pool_liquidity, DEFAULT_POOL_LIQUIDITY)) } })

\* the array built at lines 368-389, before nan_to_num and clip
raw_features(state) ==
    Val({ << p.price_dev_24h, p.price_dev_ref, p.price_ratio_ref, p.current_deviation,
             IF state.within_bounds = "True" THEN ONE ELSE ZERO,
             t.position_in_range, t.dist_to_lower, t.dist_to_upper,
             l.liquidity_util, l.total_value_normalized,
             FMax(ZERO, state.volatility_24h),
             safe_division(state.volatility_1h,
                           FOr(FMax(ZERO, state.volatility_24h), ONE), ONE),
             l.fee_rate, p.il_factor, l.pool_liquidity_normalized,
             l.volume_per_liquidity,
             FMul(l.liquidity_util, FSub(ONE, t.position_in_range)),
             t.range_risk,
             FMin(FDiv(FDiv(FMul(to_gwei(state.gas_price, state.gas_unit),
                                 GAS_LIMITS("rebalance")), F(1, 9)), F(1, -1)), ONE),
             p.rebalance_urgency >>
          : p \in {price_features(state)}, t \in {tick_features(state)},
            l \in {liquidity_features(state)} })

extract_features(state) ==
    IF extract_features_fails(state) THEN zeros20
    ELSE clip_features(raw_features(state))

(***************************************************************************)
(* RiskManager                                                             *)
(***************************************************************************)
\* RiskManager.__init__: self.max_gas_eth = max(0.0001, min(0.5, max_gas_eth))
max_gas_eth == FMax(F(1, -4), FMin(F(5, -1), SAFETY_MAX_GAS_ETH))

\* the legacy fallback branch (no token prices in extra); an exception gives 0.0
calculate_position_value(position, state) ==
    IF \/ to_eth_raises(position.token0_balance, state.price_unit, state.extra.eth_price_usd)
       \/ to_eth_raises(position.token1_balance, state.price_unit, state.extra.eth_price_usd)
    THEN ZERO
    ELSE FMax(ZERO,
              FAdd(to_eth(position.token0_balance, state.price_unit, state.extra.eth_price_usd),
                   to_eth(position.token1_balance, state.price_unit, state.extra.eth_price_usd)))

\* min((max(1.0, gas_price_gwei) * gas_limit) / 1e9, 0.5)
calculate_gas_cost(gas_price, gas_unit, action) ==
    FMin(FDiv(FMul(FMax(ONE, to_gwei(gas_price, gas_unit)), GAS_LIMITS(action)), F(1, 9)),
         F(5, -1))

\* the six sub-risks of assess_risk, before weighting
sub_risks(state) ==
    Val({
        [volatility |-> FMin(FDiv(FMax(ZERO, state.volatility_24h), ONE), ONE),
         price |-> FMin(FDiv(price_dev, F(20, 0)), ONE),
         range |-> IF state.extra.inRange THEN ZERO ELSE F(5, -1),
         il |-> IF price_ratio.m > 0
                THEN FMin(FDiv(il_factor_of(price_ratio), F(1, -1)), ONE)
                ELSE ZERO,
         gas |-> FMin(safe_division(
                          calculate_gas_cost(state.gas_price, state.gas_unit, "rebalance"),
                          FMul(FMax(F(1, -9),
                                    calculate_position_value(state.position, state)),
                               F(1, -2)),
                          ONE), ONE),
         bounds |-> IF /\ state.threshold_pct # None
                       /\ state.threshold_pct[1].m > 0
                       /\ state.within_bounds = "False"
                    THEN FMin(safe_division(FSub(price_dev, state.threshold_pct[1]),
                                            state.threshold_pct[1], ZERO), ONE)
                    ELSE ZERO]
        : price_dev \in
              { IF state.deviation_pct # None THEN FMax(ZERO, state.deviation_pct[1])
                ELSE compute_deviation_pct(state.current_price,
                                           FOr(state.twap_24h, state.current_price)) },
          price_ratio \in
              { safe_division(state.current_price,
                              FOr(state.twap_24h, state.current_price), ONE) } })

\* sum(components)
weighted_risk(risks) ==
    Val({ FAdd(FAdd(FAdd(FAdd(FAdd(FMul(F(25, -2), r.volatility),
                                   FMul(F(20, -2), r.price)),
                              FMul(F(20, -2), r.range)),
                         FMul(F(15, -2), r.il)),
                    FMul(F(10, -2), r.gas)),
               FMul(F(10, -2), r.bounds))
          : r \in {risks} })

\* max(0.0, min(1.0, risk_score))
clamp_risk_score(risk_score) == FMax(ZERO, FMin(ONE, risk_score))

risk_level_of(risk_score) ==
    Val({ IF FLt(score, F(3, -1)) THEN "low"
          ELSE IF FLt(score, F(6, -1)) THEN "medium"
          ELSE "high"
          : score \in {risk_score} })

\* assess_risk: [level, score]
assess_risk(state, predicted_reward) ==
    Val({ [level |-> risk_level_of(risk_score), score |-> risk_score]
          : risk_score \in {clamp_risk_score(weighted_risk(sub_risks(state)))} })

\* the reasons list should_execute collects for a decision that is not hold
block_reasons(decision, state) ==
    Val({ (IF FGt(to_gwei(state.gas_price, state.gas_unit), F(200, 0))
           THEN {"gas_price_gwei_too_high"} ELSE {})
          \cup (IF position_value.m <= 0 THEN {"position_value_zero_or_missing"} ELSE {})
          \cup (IF FGt(gas_cost_eth, max_gas_eth) THEN {"gas_cost_eth_too_high"} ELSE {})
          \cup (IF \/ position_value.m <= 0
                   \/ FGt(FMul(safe_division(gas_cost_eth, position_value, ZERO),
                               F(100, 0)), F(125, -1))
                THEN {"gas_cost_pct_too_high"} ELSE {})
          \cup (IF decision.risk_level = "high" /\ FLt(decision.confidence, F(8, -1))
                THEN {"high_risk_low_confidence"} ELSE {})
          : position_value \in {calculate_position_value(state.position, state)},
            gas_cost_eth \in
                {calculate_gas_cost(state.gas_price, state.gas_unit, decision.action)} })

should_execute(decision, state) ==
    IF decision.action = "hold" THEN FALSE
    ELSE block_reasons(decision, state) = {}

(***************************************************************************)
(* AIEngine: the stages of decide                                          *)
(***************************************************************************)
\* float('-inf'): the reward _heuristic_prediction returns for a worthless position
NEG_INF == [m |-> 0, e |-> -1]

\* reward > x on floats, reward possibly -inf
RewardGt(reward, x) == reward # NEG_INF /\ FGt(reward, x)

MISSING_POSITION == "Invalid state: missing position"

\* the text of the exception _validate_state raises, "" when it returns
validate_state_error(state) ==
    IF ~state.present \/ ~state.position.present THEN MISSING_POSITION
    ELSE IF to_eth_raises(FOr(state.current_price, ONE), state.price_unit,
                          state.extra.eth_price_usd)
         THEN USD_ERROR
         ELSE ""

\* the snapshot as _validate_state leaves it (it assigns to the caller's object)
validate_state(state) ==
    [state EXCEPT
        !.current_price =
            FMax(F(1, -9), to_eth(FOr(state.current_price, ONE), state.price_unit,
                                  state.extra.eth_price_usd)),
        !.pool_liquidity =
            FMax(MIN_POOL_LIQUIDITY, FOr(state.pool_liquidity, DEFAULT_POOL_LIQUIDITY)),
        !.gas_price = FOr(state.gas_price, DEFAULT_GAS_GWEI),
        !.position.token0_balance = FMax(ZERO, state.position.token0_balance),
        !.position.token1_balance = FMax(ZERO, state.position.token1_balance),
        !.position.liquidity = FMax(ZERO, state.position.liquidity)]

calculate_confidence(reward, uncertainty, state) ==
    FClip(FMul(FMul(FDiv(ONE, FAdd(ONE, FMax(ZERO, uncertainty))),
                    FSub(ONE, FMin(FDiv(state.volatility_24h, ONE), F(6, -1)))),
               IF FGt(reward, F(1, -2)) THEN FMin(FDiv(reward, F(5, -2)), ONE)
               ELSE IF FLt(reward, F(-1, -2)) THEN FMin(FDiv(FAbs(reward), F(5, -2)), ONE)
               ELSE F(3, -1)),
          F(5, -2), F(95, -2))

price_impact_high(state) == state.price_impact \in {"high", "very_high"}

\* lines 785-795 of _heuristic_prediction
rebalance_benefit(state) ==
    IF state.within_bounds = "False"
    THEN FMul(IF state.deviation_pct # None /\ state.deviation_pct[1].m # 0
              THEN state.deviation_pct[1]
              ELSE compute_deviation_pct(state.current_price,
                                         FOr(state.twap_24h, state.current_price)),
              F(8, -1))
    ELSE IF ~state.extra.inRange /\ state.position.upperTick + state.position.lowerTick # 0
    THEN Val({ FMul(FMul(FDiv(FAbs(FSub(FromInt(state.extra.currentTick), tick_midpoint)),
                              FAbs(tick_midpoint)), F(100, 0)), F(5, -1))
               : tick_midpoint \in
                     { FDiv(FromInt(state.position.upperTick + state.position.lowerTick),
                            F(2, 0)) } })
    ELSE ZERO

\* lines 797-802 of _heuristic_prediction
fee_benefit(state) ==
    Val({ IF total_balance.m > 0
          THEN FMul(FMul(safe_division(FAdd(state.position.fees_earned_0,
                                            state.position.fees_earned_1),
                                       total_balance, ZERO),
                         safe_division(state.volume_24h, state.pool_liquidity, ZERO)),
                    F(100, 0))
          ELSE ZERO
          : total_balance \in
                {FAdd(state.position.token0_balance, state.position.token1_balance)} })

\* lines 804-811 of _heuristic_prediction
il_cost(state) ==
    Val({ IF price_ratio.m > 0
          THEN FMul(FMul(il_factor_of(price_ratio), F(100, 0)), F(5, -1))
          ELSE ZERO
          : price_ratio \in
                { safe_division(state.current_price,
                                FOr(state.twap_24h, state.current_price), ONE) } })

\* lines 813-831 of _heuristic_prediction: the estimate from the benefit balance
heuristic_estimate(state, base_pct) ==
    Val({ [reward |-> FDiv(predicted_pct, F(100, 0)),
           confidence |->
               FClip(FMul(IF state.within_bounds = "False"
                          THEN FMin(FMul(FMin(FDiv(FAbs(predicted_pct), F(10, 0)), ONE),
                                         F(14, -1)), ONE)
                          ELSE FMin(FDiv(FAbs(predicted_pct), F(10, 0)), ONE),
                          IF FGe(state.volatility_24h, F(5, -1)) THEN F(6, -1)
                          ELSE IF FGe(state.volatility_24h, F(35, -2)) THEN F(8, -1)
                          ELSE ONE),
                     F(5, -2), F(9, -1))]
          : predicted_pct \in
                { Val({ IF FGe(state.volatility_24h, F(5, -1)) THEN FMul(b, F(4, -1))
                        ELSE IF FGe(state.volatility_24h, F(35, -2)) THEN FMul(b, F(7, -1))
                        ELSE b
                        : b \in {base_pct} }) } })

\* _heuristic_prediction: [reward, confidence]
heuristic_prediction(state, features) ==
    Val({ IF pos_val.m <= 0
          THEN [reward |-> NEG_INF, confidence |-> F(9, -1)]
          ELSE Val({ IF FGt(gas_price_gwei, F(150, 0)) \/ FGt(gas_cost_pct, F(125, -1))
                     THEN [reward |-> FNeg(FDiv(gas_cost_pct, F(100, 0))),
                           confidence |-> F(9, -1)]
                     ELSE IF price_impact_high(state)
                     THEN [reward |-> F(-1, -2), confidence |-> F(7, -1)]
                     ELSE heuristic_estimate(state,
                              FSub(FSub(FAdd(rebalance_benefit(state), fee_benefit(state)),
                                        il_cost(state)), gas_cost_pct))
                     : gas_cost_pct \in
                           { FMul(safe_division(gas_cost_eth, pos_val, ZERO), F(100, 0)) } })
          : pos_val \in {calculate_position_value(state.position, state)},
            gas_cost_eth \in
                {calculate_gas_cost(state.gas_price, state.gas_unit, "rebalance")},
            gas_price_gwei \in {to_gwei(state.gas_price, state.gas_unit)} })

\* base_thresh + vol * 5.0 + gas_gwei / 1000.0
dynamic_thresh(state, gas_gwei) ==
    FAdd(FAdd(IF state.threshold_pct # None /\ state.threshold_pct[1].m # 0
              THEN state.threshold_pct[1] ELSE F(3, 0),
              FMul(state.volatility_24h, F(5, 0))),
         FDiv(gas_gwei, F(1000, 0)))

determine_action(reward, confidence, risk_level, state) ==
    Val({ IF \/ FGt(gas_gwei, F(120, 0))
             \/ FGt(FMul(safe_division(
                             calculate_gas_cost(state.gas_price, state.gas_unit, "rebalance"),
                             pos_val, ZERO), F(100, 0)), F(125, -1))
          THEN "hold"
          ELSE IF price_impact_high(state) /\ FLt(pos_val, F(5, 0)) THEN "hold"
          ELSE IF FGt(confidence, F(7, -1)) THEN "rebalance"
          ELSE IF FGt(confidence, F(75, -2))
                  /\ RewardGt(reward, FDiv(dynamic_thresh(state, gas_gwei), F(100, 0)))
          THEN "rebalance"
          ELSE IF FGt(confidence, F(8, -1)) /\ RewardGt(reward, F(5, -2))
                  /\ risk_level # "high" THEN "rebalance"
          ELSE IF ~state.extra.inRange /\ FGt(confidence, F(5, -1))
                  /\ RewardGt(reward, F(1, -2))
          THEN "rebalance"
          ELSE "hold"
          : pos_val \in {calculate_position_value(state.position, state)},
            gas_gwei \in {to_gwei(state.gas_price, state.gas_unit)} })

\* int(x) of a float x >= 0
TruncInt(x) ==
    IF x.m = 0 THEN 0
    ELSE IF x.e >= 0 THEN x.m * Pow10(x.e)
    ELSE IF -x.e > 9 THEN 0
    ELSE x.m \div Pow10(-x.e)

\* the new range of a rebalance: floor and ceil to the tick spacing
rebalance_params(current_tick, range_pct, tick_range, tick_spacing) ==
    [kind |-> "rebalance",
     new_lower_tick |-> ((current_tick - tick_range) \div tick_spacing) * tick_spacing,
     new_upper_tick |-> -(((-(current_tick + tick_range)) \div tick_spacing) * tick_spacing),
     range_percentage |-> range_pct,
     current_tick |-> current_tick]

\* _generate_params, called for an action other than hold
generate_params(action, state) ==
    IF action = "rebalance"
    THEN Val({ rebalance_params(state.extra.currentTick, range_pct,
                                TruncInt(FMul(FDiv(range_pct, F(100, 0)), F(2000, 0))),
                                TICK_SPACING_DEFAULT)
               : range_pct \in
                     { FMul(FAdd(ONE, FMax(F(1, -1), FOr(state.volatility_24h, F(3, -1)))),
                            F(5, 0)) } })
    ELSE IF action = "reduce" THEN [kind |-> "reduce"]
    ELSE IF action = "close" THEN [kind |-> "close"]
    ELSE [kind |-> "empty"]

\* Decision.__post_init__: confidence clamped to [0, 1]
post_init_confidence(confidence) == FMax(ZERO, FMin(ONE, FOr(confidence, ZERO)))

Decision(action, confidence, score, reason, risk_level, recommended_params, metadata) ==
    [action |-> action, confidence |-> post_init_confidence(confidence),
     score |-> score, expected_reward |-> score, reason |-> reason,
     risk_level |-> risk_level, recommended_params |-> recommended_params,
     metadata |-> metadata]

\* _create_fallback_decision passing risk_level='medium'
create_fallback_decision_medium_risk(reason) ==
    Decision("hold", F(5, -2), ZERO, reason, "medium", None,
             [fallback |-> TRUE, error |-> TRUE])

create_fallback_decision(reason) ==
    Decision("hold", F(5, -2), ZERO, reason, "high", None,
             [fallback |-> TRUE, error |-> TRUE])

(***************************************************************************)
(* Snapshots the callers of the model pass in                              *)
(***************************************************************************)
\* an amount worth v ETH, written in unit (usd at 2000 USD per ETH)
InUnit(v, unit) ==
    CASE unit = "wei" -> FMul(v, F(1, 18))
      [] unit = "gwei" -> FMul(v, F(1, 9))
      [] unit = "usd" -> FMul(v, F(2000, 0))
      [] OTHER -> v

TWAP_24H == F(1845, 0)

PriceOf(kind, unit) ==
    CASE kind = "nan" -> NaN
      [] kind = "eq" -> InUnit(TWAP_24H, unit)
      [] kind = "far" -> InUnit(F(6458, -1), unit)

Hint(kind) ==
    CASE kind = "none" -> [deviation_pct |-> None, threshold_pct |-> None, within_bounds |-> "None"]
      [] kind = "in" -> [deviation_pct |-> Some(F(2, 0)), threshold_pct |-> Some(F(5, 0)),
                         within_bounds |-> "True"]
      [] kind = "out" -> [deviation_pct |-> Some(F(40, 0)), threshold_pct |-> Some(F(5, 0)),
                          within_bounds |-> "False"]

\* Position(...) after __post_init__
MkPosition(present, unit, bal) ==
    [present |-> present, id |-> 1, lowerTick |-> -60000, upperTick |-> 120000,
     liquidity |-> F(50000, 0),
     token0_balance |-> InUnit(bal, unit), token1_balance |-> InUnit(bal, unit),
     fees_earned_0 |-> InUnit(F(5, -4), unit), fees_earned_1 |-> InUnit(F(5, -4), unit),
     age_seconds |-> 86400]

\* MarketState(...) after __post_init__, then current_price as the caller set it
MkState(present, has_position, unit, eth_price_usd, price, gas, bal, vol, hint, in_range) ==
    [present |-> present, timestamp |-> 1699564800, poolId |-> "0xpool1",
     current_price |-> PriceOf(price, unit), price_unit |-> unit,
     twap_1h |-> InUnit(F(1848, 0), unit), twap_24h |-> InUnit(TWAP_24H, unit),
     volatility_1h |-> F(15, -2), volatility_24h |-> vol,
     pool_liquidity |-> F(1, 6), volume_24h |-> F(5, 6),
     gas_price |-> gas, gas_unit |-> "gwei",
     position |-> MkPosition(has_position, unit, bal),
     extra |-> [eth_price_usd |-> eth_price_usd,
                currentTick |-> IF in_range THEN 0 ELSE 150000,
                inRange |-> in_range],
     deviation_pct |-> Hint(hint).deviation_pct,
     threshold_pct |-> Hint(hint).threshold_pct,
     within_bounds |-> Hint(hint).within_bounds,
     price_impact |-> "None"]

UnitConfigs ==
    { <<"eth", None>>, <<"wei", None>>, <<"gwei", None>>,
      <<"usd", Some(F(2000, 0))>>, <<"usd", None>> }

PriceKinds == {"nan", "eq", "far"}

GasPrices == {F(10, 0), F(50, 0), F(1000, 0)}

Balances == {ZERO, F(5, -2), F(1000, 0)}

Volatilities == {F(25, -2), F(45, -2)}

\* the volatility of the snapshots of the short runs
BaseVolatility == F(25, -2)

HintKinds == {"none", "in", "out"}

\* decide(None) and a snapshot whose position is None
NoneState ==
    MkState(FALSE, FALSE, "eth", None, "eq", F(50, 0), F(1000, 0), F(25, -2), "none", TRUE)

NoPositionState ==
    MkState(TRUE, FALSE, "eth", None, "eq", F(50, 0), F(1000, 0), F(25, -2), "none", TRUE)

Snapshots ==
    { MkState(TRUE, TRUE, u[1], u[2], p, g, b, v, h, r) :
        u \in UnitConfigs, p \in PriceKinds, g \in GasPrices, b \in Balances,
        v \in {BaseVolatility}, h \in HintKinds, r \in BOOLEAN }
    \cup {NoneState, NoPositionState}

\* snapshots in ETH whose price equals the TWAP: the ones the long runs repeat
RepeatSnapshots ==
    { MkState(TRUE, TRUE, "eth", None, "eq", g, b, v, h, r) :
        g \in GasPrices, b \in Balances, v \in Volatilities, h \in HintKinds,
        r \in BOOLEAN }
    \cup {NoneState}

\* self.ensemble: absent, loaded but untrained, trained, trained with a failing predict
MkEnsemble(present, is_trained, fails) ==
    [present |-> present, is_trained |-> is_trained, fails |-> fails,
     reward |-> F(8, -2), uncertainty |-> F(5, -2)]

Ensembles ==
    { MkEnsemble(FALSE, FALSE, FALSE), MkEnsemble(TRUE, FALSE, FALSE),
      MkEnsemble(TRUE, TRUE, FALSE), MkEnsemble(TRUE, TRUE, TRUE) }

(***************************************************************************)
(* State                                                                   *)
(***************************************************************************)
VARIABLES
    state,             \* the caller's MarketState object (decide assigns to its fields)
    ensemble,          \* AIEngine.ensemble
    stats,             \* AIEngine.stats
    decision_history,  \* AIEngine.decision_history, deque(maxlen=5000)
    recent_actions,    \* AIEngine._recent_actions, deque(maxlen=20)
    predict_calls,     \* number of ensemble.predict invocations so far
    ret,               \* what the last decide call returned
    call,              \* what the last decide call was given and computed on the way
    features_out,      \* the last direct extract_features call: its argument and result
    helper_call,       \* the last direct call of another function: name, arguments, outcome
    threads,           \* the threads inside decide: position and local values of each
    model_dir          \* the model directory: deployed and temporary artifact, checksums

vars == <<state, ensemble, stats, decision_history, recent_actions, predict_calls,
          ret, call, features_out, helper_call, threads, model_dir>>

HISTORY_MAXLEN == 5000

RECENT_MAXLEN == 20

\* bounds of the model: decide calls per run
MaxCalls == 2

MaxRepeatCalls == 21

\* deque.append without a maxlen
deque_append_unbounded(q, maxlen, item) == Append(q, item)

\* deque.append with maxlen
deque_append(q, maxlen, item) ==
    IF Len(q) >= maxlen THEN Append(Tail(q), item) ELSE Append(q, item)

NoCall == [made |-> FALSE]

\* an empty model directory, nothing trained yet
NoFiles ==
    [model |-> <<>>, model_sha |-> <<>>, temp |-> <<>>, temp_sha |-> <<>>,
     backup |-> <<>>, trained |-> 0, deployed |-> 0, returned |-> "none"]

InitEngine ==
    /\ stats = [total_decisions |-> 0, ml_decisions |-> 0, rule_decisions |-> 0,
                blocked_decisions |-> 0, errors |-> 0,
                actions |-> [rebalance |-> 0, reduce |-> 0, hold |-> 0, close |-> 0]]
    /\ decision_history = <<>>
    /\ recent_actions = <<>>
    /\ predict_calls = 0
    /\ ret = None
    /\ call = NoCall
    /\ features_out = None
    /\ helper_call = NoCall
    /\ threads = <<>>
    /\ model_dir = NoFiles

Init ==
    /\ state \in Snapshots
    /\ ensemble \in Ensembles
    /\ InitEngine

InitRepeat ==
    /\ state \in RepeatSnapshots
    /\ ensemble \in {MkEnsemble(FALSE, FALSE, FALSE), MkEnsemble(TRUE, TRUE, FALSE)}
    /\ InitEngine

(***************************************************************************)
(* AIEngine.decide                                                         *)
(***************************************************************************)
\* predict_stage with stats['ml_decisions'] incremented before predict is called
predict_stage_counting_ml(s, features) ==
    IF ensemble.present /\ ensemble.is_trained /\ ~ensemble.fails
    THEN [reward |-> ensemble.reward,
          confidence |-> calculate_confidence(ensemble.reward, ensemble.uncertainty, s),
          reason |-> "ml_ensemble", used_ml |-> TRUE, predict_called |-> 1]
    ELSE Val({ [reward |-> h.reward, confidence |-> h.confidence,
                reason |-> IF ensemble.present /\ ensemble.is_trained
                           THEN "rule_fallback" ELSE "rule_based",
                used_ml |-> ensemble.present /\ ensemble.is_trained,
                predict_called |-> IF ensemble.present /\ ensemble.is_trained
                                   THEN 1 ELSE 0]
               : h \in {heuristic_prediction(s, features)} })

\* lines 700-714: the estimator or the heuristic path
\* [reward, confidence, reason, used_ml, predict_called]
predict_stage(s, features) ==
    IF ensemble.present /\ ensemble.is_trained /\ ~ensemble.fails
    THEN [reward |-> ensemble.reward,
          confidence |-> calculate_confidence(ensemble.reward, ensemble.uncertainty, s),
          reason |-> "ml_ensemble", used_ml |-> TRUE, predict_called |-> 1]
    ELSE Val({ [reward |-> h.reward, confidence |-> h.confidence,
                reason |-> IF ensemble.present /\ ensemble.is_trained
                           THEN "rule_fallback" ELSE "rule_based",
                used_ml |-> FALSE,
                predict_called |-> IF ensemble.present /\ ensemble.is_trained
                                   THEN 1 ELSE 0]
               : h \in {heuristic_prediction(s, features)} })

\* the safety block without the max(0.05, ...) floor on the confidence
safety_blocked_no_floor(decision) ==
    [decision EXCEPT !.action = "hold",
                     !.reason = decision.reason \o "_safety_blocked",
                     !.confidence = FSub(decision.confidence, F(2, -1))]

\* lines 724-728: the decision after the safety check
safety_blocked(decision) ==
    [decision EXCEPT !.action = "hold",
                     !.reason = decision.reason \o "_safety_blocked",
                     !.confidence = FMax(F(5, -2), FSub(decision.confidence, F(2, -1)))]

\* window_all_same without the test of the window's length
window_all_same_any_length(window) ==
    Cardinality({window[i] : i \in 1..Len(window)}) = 1

\* lines 735-737: the same action filled the whole window
window_all_same(window) ==
    Len(window) = RECENT_MAXLEN /\ Cardinality({window[i] : i \in 1..Len(window)}) = 1

dampened(decision) == [decision EXCEPT !.confidence = FMul(decision.confidence, F(7, -1))]

\* _record_decision: the record appended (asdict copies the decision as it is then)
history_record(s, decision) ==
    [timestamp |-> s.timestamp, pool_id |-> s.poolId, position_id |-> s.position.id,
     decision |-> decision,
     state_hash |-> <<s.poolId, s.position.id, s.timestamp>>]

\* the except branch of decide without self.stats['errors'] += 1
DecideErrorUncounted(err) ==
    /\ stats' = [stats EXCEPT !.total_decisions = @ + 1]
    /\ ret' = Some(create_fallback_decision(err))
    /\ call' = [made |-> TRUE, arg |-> state, error |-> err]
    /\ UNCHANGED <<state, ensemble, decision_history, recent_actions, predict_calls,
                   features_out, helper_call, threads, model_dir>>

\* the except branch of decide
DecideError(err) ==
    /\ stats' = [stats EXCEPT !.total_decisions = @ + 1, !.errors = @ + 1]
    /\ ret' = Some(create_fallback_decision(err))
    /\ call' = [made |-> TRUE, arg |-> state, error |-> err]
    /\ UNCHANGED <<state, ensemble, decision_history, recent_actions, predict_calls,
                   features_out, helper_call, threads, model_dir>>

\* lines 716-721: risk, policy, parameters and the Decision object
build_decision(s, features, p) ==
    Val({ Val({
        Decision(action, FClip(p.confidence, ZERO, ONE), p.reward, p.reason, risk.level,
                 IF action # "hold" THEN Some(generate_params(action, s)) ELSE None,
                 [risk_score |-> risk.score, timestamp |-> s.timestamp,
                  position_id |-> s.position.id,
                  gas_price_gwei |-> to_gwei(s.gas_price, s.gas_unit),
                  position_value_eth |-> calculate_position_value(s.position, s),
                  features_used |-> Len(features)])
        : action \in {determine_action(p.reward, p.confidence, risk.level, s)} })
        : risk \in {assess_risk(s, p.reward)} })

\* the try body of decide, run to its return (each stage is evaluated once)
DecideOk ==
    \E s \in {validate_state(state)} :
    \E features \in {extract_features(s)} :
    \E p \in {predict_stage(s, features)} :
    \E decision \in {build_decision(s, features, p)} :
    \E blocked \in {~should_execute(decision, s)} :
    \E gated \in {IF blocked THEN safety_blocked(decision) ELSE decision} :
    \E window \in {deque_append(recent_actions, RECENT_MAXLEN, gated.action)} :
    \E damp \in {window_all_same(window)} :
       /\ state' = s
       /\ stats' = [stats EXCEPT
                       !.total_decisions = @ + 1,
                       !.ml_decisions = IF p.used_ml THEN @ + 1 ELSE @,
                       !.rule_decisions = IF p.used_ml THEN @ ELSE @ + 1,
                       !.blocked_decisions = IF blocked THEN @ + 1 ELSE @,
                       !.actions[gated.action] = @ + 1]
       /\ decision_history' =
              deque_append(decision_history, HISTORY_MAXLEN, history_record(s, gated))
       /\ recent_actions' = window
       /\ predict_calls' = predict_calls + p.predict_called
       /\ ret' = Some(IF damp THEN dampened(gated) ELSE gated)
       /\ call' = [made |-> TRUE, arg |-> state, error |-> "",
                   features |-> features, stage |-> p, risks |-> sub_risks(s),
                   policy_action |-> decision.action, decision |-> decision,
                   reasons |-> IF decision.action = "hold" THEN {}
                               ELSE block_reasons(decision, s),
                   blocked |-> blocked, dampened |-> damp]
       /\ UNCHANGED <<ensemble, features_out, helper_call, threads, model_dir>>

\* one call engine.decide(state)
Decide(limit) ==
    /\ stats.total_decisions < limit
    /\ \E err \in {validate_state_error(state)} :
          IF err # "" THEN DecideError(err) ELSE DecideOk

\* one call FeatureEngineering().extract_features(state)
ExtractFeatures ==
    /\ features_out' = Some([arg |-> state, features |-> extract_features(state)])
    /\ UNCHANGED <<state, ensemble, stats, decision_history, recent_actions,
                   predict_calls, ret, call, helper_call, threads, model_dir>>

Next ==
    \/ Decide(MaxCalls)
    \/ ExtractFeatures

Spec == Init /\ [][Next]_vars

NextRepeat ==
    \/ Decide(MaxRepeatCalls)
    \/ ExtractFeatures

SpecRepeat == InitRepeat /\ [][NextRepeat]_vars

\* runs in which the caller changes the snapshot --------------------------
\* bound of the model: the caller repeats its first snapshot this many times
\* before it hands decide another one
RepeatFirst == 18

\* snapshots with each outcome: rebalance, hold, rebalance blocked to hold, error
WindowSnapshots ==
    { MkState(TRUE, TRUE, "eth", None, "eq", g, b, BaseVolatility, "none", TRUE) :
        g \in {F(10, 0), F(1000, 0)}, b \in {F(5, -2), F(1000, 0)} }
    \cup {NoneState}

InitWindow ==
    /\ state \in WindowSnapshots
    /\ ensemble \in {MkEnsemble(FALSE, FALSE, FALSE), MkEnsemble(TRUE, TRUE, FALSE)}
    /\ InitEngine

\* the caller builds the snapshot of its next decide call
NewSnapshot ==
    /\ stats.total_decisions >= RepeatFirst
    /\ stats.total_decisions < MaxRepeatCalls
    /\ state' \in WindowSnapshots \ {state}
    /\ UNCHANGED <<ensemble, stats, decision_history, recent_actions, predict_calls,
                   ret, call, features_out, helper_call, threads, model_dir>>

NextWindow ==
    \/ Decide(MaxRepeatCalls)
    \/ NewSnapshot

SpecWindow == InitWindow /\ [][NextWindow]_vars

\* runs that fill the decision history -------------------------------------
\* bounds of the model: the calls the engine has served when a run starts, and
\* the calls it has served when the run ends
PriorCalls == 4998

MaxHistoryCalls == 5002

\* what the try body of decide leaves of a snapshot before the window is read
gate_stage(s) ==
    Val({ Val({ Val({ [decision |-> IF should_execute(d, s) THEN d ELSE safety_blocked(d),
                       blocked |-> ~should_execute(d, s),
                       used_ml |-> p.used_ml]
                      : d \in {build_decision(s, f, p)} })
                : p \in {predict_stage(s, f)} })
          : f \in {extract_features(s)} })

\* decision_history after k calls of the sampling loop that now holds snapshot s:
\* the snapshots of those calls were taken k, k - 1, ... 1 seconds before s
prior_history(s, k) ==
    IF validate_state_error(s) # "" THEN <<>>
    ELSE Val({ [i \in 1..(IF k < HISTORY_MAXLEN THEN k ELSE HISTORY_MAXLEN) |->
                  history_record(
                      [s EXCEPT !.timestamp =
                          @ - (IF k < HISTORY_MAXLEN THEN k ELSE HISTORY_MAXLEN) + i - 1],
                      [g.decision EXCEPT !.metadata.timestamp =
                          s.timestamp - (IF k < HISTORY_MAXLEN THEN k ELSE HISTORY_MAXLEN)
                              + i - 1])]
               : g \in {gate_stage(validate_state(s))} })

\* _recent_actions after those calls
prior_window(s, k) ==
    IF validate_state_error(s) # "" THEN <<>>
    ELSE Val({ [i \in 1..(IF k < RECENT_MAXLEN THEN k ELSE RECENT_MAXLEN) |->
                  g.decision.action]
               : g \in {gate_stage(validate_state(s))} })

\* stats after those calls
prior_stats(s, k) ==
    IF validate_state_error(s) # ""
    THEN [total_decisions |-> k, ml_decisions |-> 0, rule_decisions |-> 0,
          blocked_decisions |-> 0, errors |-> k,
          actions |-> [rebalance |-> 0, reduce |-> 0, hold |-> 0, close |-> 0]]
    ELSE Val({ [total_decisions |-> k,
                ml_decisions |-> IF g.used_ml THEN k ELSE 0,
                rule_decisions |-> IF g.used_ml THEN 0 ELSE k,
                blocked_decisions |-> IF g.blocked THEN k ELSE 0,
                errors |-> 0,
                actions |-> [[rebalance |-> 0, reduce |-> 0, hold |-> 0, close |-> 0]
                                EXCEPT ![g.decision.action] = k]]
               : g \in {gate_stage(validate_state(s))} })

HistorySnapshots ==
    { MkState(TRUE, TRUE, "eth", None, "eq", g, b, BaseVolatility, "none", r) :
        g \in GasPrices, b \in Balances, r \in BOOLEAN }
    \cup {NoneState}

\* the engine after PriorCalls calls of the sampling loop; no call observed yet
InitHistory ==
    /\ state \in HistorySnapshots
    /\ ensemble = MkEnsemble(FALSE, FALSE, FALSE)
    /\ stats = prior_stats(state, PriorCalls)
    /\ decision_history = prior_history(state, PriorCalls)
    /\ recent_actions = prior_window(state, PriorCalls)
    /\ predict_calls = 0
    /\ ret = None
    /\ call = NoCall
    /\ features_out = None
    /\ helper_call = NoCall
    /\ threads = <<>>
    /\ model_dir = NoFiles

\* the caller's sampling loop: each snapshot is decided once ...
DecideFresh ==
    /\ call.made => call.arg.timestamp # state.timestamp
    /\ Decide(MaxHistoryCalls)

\* ... and the next snapshot is taken one second later
NextSample ==
    /\ call.made /\ call.arg.timestamp = state.timestamp
    /\ stats.total_decisions < MaxHistoryCalls
    /\ state' = [state EXCEPT !.timestamp = @ + 1]
    /\ UNCHANGED <<ensemble, stats, decision_history, recent_actions, predict_calls,
                   ret, call, features_out, helper_call, threads, model_dir>>

NextHistory ==
    \/ DecideFresh
    \/ NextSample

SpecHistory == InitHistory /\ [][NextHistory]_vars

\* several threads inside decide --------------------------------------------
\* decide takes no lock.  A thread can be switched out between the read and the
\* write of a counter it increments; deque.append and the reads of the window
\* are single steps.  The race is modelled on total_decisions and on the
\* per-action counter; the other counters are incremented in one step.
\* bound of the model: threads calling decide once each on one engine
NumThreads == 2

ThreadSnapshots ==
    { MkState(TRUE, TRUE, "eth", None, "eq", F(10, 0), F(5, -2), BaseVolatility,
              "none", TRUE),
      MkState(TRUE, TRUE, "eth", None, "eq", F(1000, 0), F(1000, 0), BaseVolatility,
              "none", TRUE),
      NoneState }

\* thread t is about to call decide on its own snapshot (told apart by timestamp)
InitThreads ==
    /\ state = NoneState
    /\ ensemble = MkEnsemble(FALSE, FALSE, FALSE)
    /\ stats = [total_decisions |-> 0, ml_decisions |-> 0, rule_decisions |-> 0,
                blocked_decisions |-> 0, errors |-> 0,
                actions |-> [rebalance |-> 0, reduce |-> 0, hold |-> 0, close |-> 0]]
    /\ decision_history = <<>>
    /\ recent_actions = <<>>
    /\ predict_calls = 0
    /\ ret = None
    /\ call = NoCall
    /\ features_out = None
    /\ helper_call = NoCall
    /\ model_dir = NoFiles
    /\ threads \in { [t \in 1..NumThreads |->
                        [pc |-> "idle", snapshot |-> [f[t] EXCEPT !.timestamp = @ + t],
                         loaded |-> 0, decision |-> None, ret |-> None]]
                     : f \in [1..NumThreads -> ThreadSnapshots] }

UnchangedByThreadOnStats ==
    UNCHANGED <<state, ensemble, decision_history, recent_actions, predict_calls,
                ret, call, features_out, helper_call, model_dir>>

\* line 695, the read of self.stats['total_decisions'] += 1
ThreadLoadTotal(t) ==
    /\ threads[t].pc = "idle"
    /\ threads' = [threads EXCEPT ![t].pc = "store_total",
                                  ![t].loaded = stats.total_decisions]
    /\ UNCHANGED stats
    /\ UnchangedByThreadOnStats

\* line 695, the write; then _validate_state, and the except branch if it raises
ThreadStoreTotal(t) ==
    /\ threads[t].pc = "store_total"
    /\ \E err \in {validate_state_error(threads[t].snapshot)} :
          IF err # ""
          THEN /\ stats' = [stats EXCEPT !.total_decisions = threads[t].loaded + 1,
                                         !.errors = @ + 1]
               /\ threads' = [threads EXCEPT ![t].pc = "done",
                                  ![t].ret = Some(create_fallback_decision(err))]
          ELSE /\ stats' = [stats EXCEPT !.total_decisions = threads[t].loaded + 1]
               /\ threads' = [threads EXCEPT ![t].pc = "body"]
    /\ UnchangedByThreadOnStats

\* lines 697-730 up to the call self.stats['actions'].get(decision.action, 0)
ThreadBody(t) ==
    /\ threads[t].pc = "body"
    /\ \E g \in {gate_stage(validate_state(threads[t].snapshot))} :
          /\ stats' = [stats EXCEPT
                          !.ml_decisions = IF g.used_ml THEN @ + 1 ELSE @,
                          !.rule_decisions = IF g.used_ml THEN @ ELSE @ + 1,
                          !.blocked_decisions = IF g.blocked THEN @ + 1 ELSE @]
          /\ threads' = [threads EXCEPT ![t].pc = "store_action",
                                        ![t].loaded = stats.actions[g.decision.action],
                                        ![t].decision = Some(g.decision)]
    /\ UnchangedByThreadOnStats

\* lines 730-732: the write of the per-action counter, _record_decision and
\* self._recent_actions.append
ThreadStoreAction(t) ==
    /\ threads[t].pc = "store_action"
    /\ stats' = [stats EXCEPT !.actions[threads[t].decision[1].action] =
                                  threads[t].loaded + 1]
    /\ decision_history' =
           deque_append(decision_history, HISTORY_MAXLEN,
                        history_record(validate_state(threads[t].snapshot),
                                       threads[t].decision[1]))
    /\ recent_actions' =
           deque_append(recent_actions, RECENT_MAXLEN, threads[t].decision[1].action)
    /\ threads' = [threads EXCEPT ![t].pc = "scan"]
    /\ UNCHANGED <<state, ensemble, predict_calls, ret, call, features_out, helper_call,
                   model_dir>>

\* lines 735-740: the window is read and the decision returned
ThreadReturn(t) ==
    /\ threads[t].pc = "scan"
    /\ threads' = [threads EXCEPT
                      ![t].pc = "done",
                      ![t].ret = Some(IF window_all_same(recent_actions)
                                      THEN dampened(threads[t].decision[1])
                                      ELSE threads[t].decision[1])]
    /\ UNCHANGED stats
    /\ UnchangedByThreadOnStats

NextThreads ==
    \/ \E t \in 1..NumThreads : ThreadLoadTotal(t)
    \/ \E t \in 1..NumThreads : ThreadStoreTotal(t)
    \/ \E t \in 1..NumThreads : ThreadBody(t)
    \/ \E t \in 1..NumThreads : ThreadStoreAction(t)
    \/ \E t \in 1..NumThreads : ThreadReturn(t)

SpecThreads == InitThreads /\ [][NextThreads]_vars

(***************************************************************************)
(* Direct calls of the other functions                                     *)
(***************************************************************************)
\* snapshots handed to the direct calls: price at the TWAP, no deviation hints
CallSnapshots ==
    { MkState(TRUE, TRUE, u[1], u[2], "eq", g, b, BaseVolatility, "none", TRUE) :
        u \in UnitConfigs, g \in GasPrices, b \in Balances }

\* Decision(action=..., confidence=..., score=0.05, expected_reward=0.05,
\*          reason='test', risk_level=...)
TestDecision(action, confidence, risk_level) ==
    Decision(action, confidence, F(5, -2), "test", risk_level, None, <<>>)

TestDecisions ==
    { TestDecision(a, c, r) :
        a \in {"rebalance", "reduce", "hold"},
        c \in {F(5, -1), F(8, -1), F(9, -1)},
        r \in {"low", "high"} }

InitCalls ==
    /\ state = NoneState
    /\ ensemble = MkEnsemble(FALSE, FALSE, FALSE)
    /\ InitEngine

\* what a direct call leaves behind: raised is the exception's type, "" for none
\* (the functions called keep no state: a run makes one such call)
Called(op, args, raised, result) ==
    /\ ~helper_call.made
    /\ helper_call' = [made |-> TRUE, op |-> op, args |-> args, raised |-> raised,
                       result |-> result]
    /\ UNCHANGED <<state, ensemble, stats, decision_history, recent_actions,
                   predict_calls, ret, call, features_out, threads, model_dir>>

\* RiskManager(max_loss_pct=0.05, max_gas_eth=0.01).should_execute(decision, state)
ShouldExecuteCall ==
    \E decision \in TestDecisions, s \in CallSnapshots :
        Called("should_execute", [decision |-> decision, state |-> s], "",
               should_execute(decision, s))

\* ModelEnsemble.load -----------------------------------------------------
\* hashlib.sha256 of the artifact's bytes (artifacts are named by their content)
sha256_hexdigest(content) ==
    CASE content = "model_v1" -> "5f2a"
      [] content = "model_v2" -> "c91e"
      [] content = "model_v3" -> "7b04"
      [] content = "model_v4" -> "e3d8"
      [] OTHER -> "0000"

\* str.strip() of the checksum file's text (a trailing newline is whitespace)
strip(text) ==
    IF Len(text) > 0 /\ SubSeq(text, Len(text), Len(text)) = "\n"
    THEN SubSeq(text, 1, Len(text) - 1) ELSE text

\* the files at path and path + '.sha256', and the build's HAS_ML flag
\* the artifact holds [is_trained, has_models]; None is a missing file
ModelFiles ==
    [ has_ml : BOOLEAN,
      artifact : {None} \cup { Some([content |-> c, is_trained |-> tr, has_models |-> hm]) :
                                 c \in {"model_v1", "model_v2"},
                                 tr \in BOOLEAN, hm \in BOOLEAN },
      checksum : {None, Some("5f2a"), Some("5f2a\n"), Some("c91e")} ]

\* the exception load raises, "" when it returns
load_error(files, allow_unverified) ==
    IF ~files.has_ml THEN "RuntimeError"
    ELSE IF files.artifact = None THEN "FileNotFoundError"
    ELSE IF files.checksum # None
         THEN IF sha256_hexdigest(files.artifact[1].content) # strip(files.checksum[1])
              THEN "ValueError: Model checksum mismatch"
              ELSE ""
    ELSE IF ~allow_unverified THEN "ValueError: Model has no .sha256 checksum file"
    ELSE ""

\* the ensemble load returns
load(files, allow_unverified) ==
    MkEnsemble(TRUE, files.artifact[1].is_trained /\ files.artifact[1].has_models, FALSE)

\* ModelEnsemble.load(path, allow_unverified)
LoadCall ==
    \E files \in ModelFiles, allow_unverified \in BOOLEAN :
    \E err \in {load_error(files, allow_unverified)} :
        Called("load", [files |-> files, allow_unverified |-> allow_unverified], err,
               IF err = "" THEN Some(load(files, allow_unverified)) ELSE None)

\* reward-calculator.py: UniswapV3Math --------------------------------------
MIN_TICK == -887272

MAX_TICK == 887272

\* max(MIN_TICK, min(MAX_TICK, tick))
clamp_tick(tick) ==
    IF tick > MAX_TICK THEN MAX_TICK ELSE IF tick < MIN_TICK THEN MIN_TICK ELSE tick

\* 1.0001 ** (x2 / 2) at the half-tick counts the model's ticks produce,
\* rounded to four digits
pow_1_0001(x2) ==
    CASE x2 = -1774544 -> F(2939, -42)
      [] x2 = -887272 -> F(5421, -23)
      [] x2 = -160000 -> F(3356, -7)
      [] x2 = -140000 -> F(9122, -7)
      [] x2 = -80000 -> F(1832, -5)
      [] x2 = -60000 -> F(4979, -5)
      [] x2 = -20000 -> F(3679, -4)
      [] x2 = 0 -> ONE
      [] x2 = 20000 -> F(2718, -3)
      [] x2 = 60000 -> F(2008, -2)
      [] x2 = 80000 -> F(5459, -2)
      [] x2 = 140000 -> F(1096, 0)
      [] x2 = 160000 -> F(2980, 0)
      [] x2 = 887272 -> F(1845, 16)
      [] x2 = 1774544 -> F(3403, 35)

tick_to_price(tick) == pow_1_0001(2 * clamp_tick(tick))

tick_to_sqrt_price(tick) == pow_1_0001(clamp_tick(tick))

\* reward-calculator.py: RewardCalculator -----------------------------------
\* calculate_position_value(position, in_token1=True)
position_value_in_token1(position) ==
    IF FLe(position.current_price, ZERO) THEN ZERO
    ELSE FMax(ZERO,
              FAdd(FAdd(FMul(position.token0_balance, position.current_price),
                        position.token1_balance),
                   FAdd(FMul(position.fees_earned_0, position.current_price),
                        position.fees_earned_1)))

\* 1/s - 1/sqrt_upper + s - sqrt_lower: the in-range value at sqrt price s
range_value(s, sqrt_lower, sqrt_upper) ==
    FAdd(FSub(FDiv(ONE, s), FDiv(ONE, sqrt_upper)), FSub(s, sqrt_lower))

\* il_by_branch without the "- 1": the value ratio itself
il_by_branch_ratio(sqrt_entry, sqrt_current, sqrt_lower, sqrt_upper) ==
    IF FLe(sqrt_current, sqrt_lower)
    THEN FAbs(FDiv(sqrt_current, sqrt_entry))
    ELSE IF FGe(sqrt_current, sqrt_upper)
    THEN FAbs(FDiv(sqrt_entry, sqrt_current))
    ELSE FAbs(FDiv(range_value(sqrt_current, sqrt_lower, sqrt_upper),
                   range_value(sqrt_entry, sqrt_lower, sqrt_upper)))

\* il before the concentration factor, by the position of the current price
il_by_branch(sqrt_entry, sqrt_current, sqrt_lower, sqrt_upper) ==
    IF FLe(sqrt_current, sqrt_lower)
    THEN FAbs(FSub(FDiv(sqrt_current, sqrt_entry), ONE))
    ELSE IF FGe(sqrt_current, sqrt_upper)
    THEN FAbs(FSub(FDiv(sqrt_entry, sqrt_current), ONE))
    ELSE FAbs(FSub(FDiv(range_value(sqrt_current, sqrt_lower, sqrt_upper),
                        range_value(sqrt_entry, sqrt_lower, sqrt_upper)), ONE))

\* max(1.0, min(5.0, 1.0 / max(range_width / sqrt_entry, 0.1)))
concentration(sqrt_entry, sqrt_lower, sqrt_upper) ==
    IF FLe(FSub(sqrt_upper, sqrt_lower), ZERO) \/ FLe(sqrt_entry, ZERO) THEN ONE
    ELSE FMax(ONE, FMin(F(5, 0),
                        FDiv(ONE, FMax(FDiv(FSub(sqrt_upper, sqrt_lower), sqrt_entry),
                                       F(1, -1)))))

\* the try body of calculate_impermanent_loss on the four sqrt prices
il_from_sqrt(sqrt_entry, sqrt_current, sqrt_lower, sqrt_upper) ==
    IF FLe(sqrt_upper, sqrt_lower) \/ FLe(sqrt_lower, ZERO) THEN ZERO
    ELSE IF /\ FGt(sqrt_current, sqrt_lower)
            /\ FLt(sqrt_current, sqrt_upper)
            /\ FLe(range_value(sqrt_entry, sqrt_lower, sqrt_upper), ZERO)
    THEN ZERO
    ELSE FMax(ZERO,
              FMin(FMul(il_by_branch(sqrt_entry, sqrt_current, sqrt_lower, sqrt_upper),
                        concentration(sqrt_entry, sqrt_lower, sqrt_upper)),
                   ONE))

calculate_impermanent_loss(entry_price, current_price, lower_tick, upper_tick) ==
    IF FLe(entry_price, ZERO) \/ FLe(current_price, ZERO) THEN ZERO
    ELSE IF lower_tick >= upper_tick THEN ZERO
    ELSE Val({ il_from_sqrt(sqrt_entry, sqrt_current, sqrt_lower, sqrt_upper)
               : sqrt_entry \in {FSqrt(entry_price)},
                 sqrt_current \in {FSqrt(current_price)},
                 sqrt_lower \in {tick_to_sqrt_price(lower_tick)},
                 sqrt_upper \in {tick_to_sqrt_price(upper_tick)} })

\* tick ranges <<lower_tick, upper_tick>>; the last one lies above MAX_TICK
TickRanges ==
    { <<-20000, 20000>>, <<60000, 80000>>, <<-80000, -60000>>, <<890000, 900000>> }

CalcPrices == { F(5, -2), ONE, F(2, 0), F(20, 0), F(2000, 0) }

\* RewardCalculator().calculate_impermanent_loss(entry, current, lo, hi)
ImpermanentLossCall ==
    \E entry \in CalcPrices, current \in CalcPrices, range \in TickRanges :
        Called("calculate_impermanent_loss",
               [entry_price |-> entry, current_price |-> current,
                lower_tick |-> range[1], upper_tick |-> range[2]], "",
               calculate_impermanent_loss(entry, current, range[1], range[2]))

\* lower_tick <= current_tick <= upper_tick
ticks_in_range(position) ==
    position.lower_tick <= position.current_tick
        /\ position.current_tick <= position.upper_tick

\* min(2 * sqrt_current / range_width, 10.0), at least 1.0
concentration_bonus(sqrt_current, sqrt_lower, sqrt_upper) ==
    IF FLe(FSub(sqrt_upper, sqrt_lower), ZERO) \/ FLe(sqrt_current, ZERO) THEN ONE
    ELSE FMax(ONE, FMin(FDiv(FMul(F(2, 0), sqrt_current), FSub(sqrt_upper, sqrt_lower)),
                        F(10, 0)))

\* daily_fees * liquidity_share * concentration_bonus * time_factor
position_fees(position, pool, position_value, time_period_hours) ==
    FMul(FMul(FMul(FMul(pool.volume_24h, FDiv(FromInt(pool.fee_tier), F(1, 6))),
                   FDiv(position_value, FMul(pool.tvl, pool.active_liquidity_ratio))),
              concentration_bonus(FSqrt(position.current_price),
                                  tick_to_sqrt_price(position.lower_tick),
                                  tick_to_sqrt_price(position.upper_tick))),
         FDiv(time_period_hours, F(24, 0)))

estimate_fee_yield(position, pool, time_period_hours) ==
    IF ~ticks_in_range(position) THEN ZERO
    ELSE IF \/ FLe(pool.tvl, ZERO) \/ FLe(pool.volume_24h, ZERO)
            \/ FLe(position.current_price, ZERO)
    THEN ZERO
    ELSE IF FLe(position_value_in_token1(position), ZERO) THEN ZERO
    ELSE IF FLe(FMul(pool.tvl, pool.active_liquidity_ratio), ZERO) THEN ZERO
    ELSE FMax(ZERO, position_fees(position, pool, position_value_in_token1(position),
                                  time_period_hours))

\* slippage_bps = 30: pre_value * (slippage_bps / 10000) * 2
slippage_cost_of(pre_value) == FMul(FMul(pre_value, FDiv(F(30, 0), F(10000, 0))), F(2, 0))

\* the IL the rebalance locks in, priced from the middle of the old range
il_crystallized_of(pre_position, pre_value) ==
    FMul(pre_value,
         calculate_impermanent_loss(
             tick_to_price((pre_position.lower_tick + pre_position.upper_tick) \div 2),
             pre_position.current_price, pre_position.lower_tick,
             pre_position.upper_tick))

\* the costs dictionary for a position worth pre_value > 0
cost_breakdown(gas_cost_eth, slippage_cost, il_amount) ==
    [gas_cost |-> FMax(ZERO, gas_cost_eth),
     slippage_cost |-> FMax(ZERO, slippage_cost),
     il_crystallized |-> FMax(ZERO, il_amount),
     price_impact |-> ZERO,
     total_cost |-> FMax(ZERO, FAdd(FAdd(FAdd(gas_cost_eth, slippage_cost), il_amount),
                                    ZERO))]

calculate_rebalance_cost(pre_position, post_position, gas_cost_eth) ==
    Val({ IF FLe(pre_value, ZERO)
          THEN [gas_cost |-> gas_cost_eth, slippage_cost |-> ZERO,
                il_crystallized |-> ZERO, price_impact |-> ZERO,
                total_cost |-> gas_cost_eth]
          ELSE cost_breakdown(gas_cost_eth, slippage_cost_of(pre_value),
                              il_crystallized_of(pre_position, pre_value))
          : pre_value \in {position_value_in_token1(pre_position)} })

\* |current_tick - (lower_tick + upper_tick) / 2|, doubled to stay an integer
distance2(position) ==
    IAbs(2 * position.current_tick - (position.lower_tick + position.upper_tick))

\* position_value * improvement_pct * 0.001 when the new range is better centred
centering_benefit_of(pre_position, post_position) ==
    IF distance2(post_position) < distance2(pre_position) /\ distance2(pre_position) > 0
    THEN FMul(FMul(position_value_in_token1(pre_position),
                   FDiv(FromInt(distance2(pre_position) - distance2(post_position)),
                        FromInt(distance2(pre_position)))),
              F(1, -3))
    ELSE ZERO

\* the benefits dictionary from its three raw terms
benefit_breakdown(fee_term, range_term, centering_term) ==
    [fee_improvement |-> FMax(ZERO, fee_term),
     range_improvement |-> FMax(ZERO, range_term),
     centering_benefit |-> FMax(ZERO, centering_term),
     total_benefit |-> FMax(ZERO, FAdd(FAdd(fee_term, range_term), centering_term))]

calculate_rebalance_benefit(pre_position, post_position, pool, forecast_hours) ==
    Val({ benefit_breakdown(
              FSub(post_fee_yield, pre_fee_yield),
              IF ~ticks_in_range(pre_position) /\ ticks_in_range(post_position)
              THEN FMul(post_fee_yield, F(5, -1)) ELSE ZERO,
              centering_benefit_of(pre_position, post_position))
          : pre_fee_yield \in {estimate_fee_yield(pre_position, pool, forecast_hours)},
            post_fee_yield \in {estimate_fee_yield(post_position, pool, forecast_hours)} })

\* net_reward = benefits['total_benefit'] - costs['total_cost'] - costs['gas_cost']
net_reward_of_gas_twice(benefits, costs) ==
    FSub(FSub(benefits.total_benefit, costs.total_cost), costs.gas_cost)

\* net_reward = benefits['total_benefit'] - costs['total_cost']
net_reward_of(benefits, costs) == FSub(benefits.total_benefit, costs.total_cost)

\* roi_pct_of with 100 instead of 0 for a position without value
roi_pct_of_full_when_worthless(net_reward, pre_value) ==
    IF FGt(pre_value, ZERO) THEN FMul(FDiv(net_reward, pre_value), F(100, 0))
    ELSE F(100, 0)

\* (net_reward / pre_value * 100) if pre_value > 0 else 0
roi_pct_of(net_reward, pre_value) ==
    IF FGt(pre_value, ZERO) THEN FMul(FDiv(net_reward, pre_value), F(100, 0)) ELSE ZERO

calculate_net_reward(pre_position, post_position, pool, gas_cost_eth, forecast_hours) ==
    Val({ Val({
        [gas_cost |-> costs.gas_cost, slippage_cost |-> costs.slippage_cost,
         il_crystallized |-> costs.il_crystallized, total_cost |-> costs.total_cost,
         fee_improvement |-> benefits.fee_improvement,
         range_improvement |-> benefits.range_improvement,
         centering_benefit |-> benefits.centering_benefit,
         total_benefit |-> benefits.total_benefit,
         net_reward |-> net_reward,
         roi_pct |-> roi_pct_of(net_reward, pre_value),
         is_profitable |-> FGt(net_reward, ZERO),
         pre_value |-> pre_value,
         post_value |-> position_value_in_token1(post_position),
         forecast_hours |-> forecast_hours]
        : net_reward \in {net_reward_of(benefits, costs)} })
        : costs \in {calculate_rebalance_cost(pre_position, post_position, gas_cost_eth)},
          benefits \in {calculate_rebalance_benefit(pre_position, post_position, pool,
                                                    forecast_hours)},
          pre_value \in {position_value_in_token1(pre_position)} })

calculate_hold_reward(position, pool, price_change_pct, hold_hours) ==
    Val({ Val({
        [fees_earned |-> FMax(ZERO, fees_earned),
         il_cost |-> FMax(ZERO, il_amount),
         net_reward |-> FSub(fees_earned, il_amount),
         roi_pct |-> roi_pct_of(FSub(fees_earned, il_amount), position_value)]
        : il_amount \in
            {FMul(position_value,
                  calculate_impermanent_loss(
                      position.current_price,
                      FMul(position.current_price,
                           FAdd(ONE, FDiv(price_change_pct, F(100, 0)))),
                      position.lower_tick, position.upper_tick))} })
        : fees_earned \in {estimate_fee_yield(position, pool, hold_hours)},
          position_value \in {position_value_in_token1(position)} })

\* _generate_reasoning: which of its three sentences
generate_reasoning(rebalance, decision) ==
    IF decision THEN "Rebalance"
    ELSE IF ~rebalance.is_profitable THEN "Hold: rebalance would lose"
    ELSE "Hold: marginal gain not worth risk"

should_rebalance(pre_position, post_position, pool, gas_cost_eth, min_roi_threshold) ==
    Val({ Val({
        [should_rebalance |-> decision, rebalance_reward |-> reward,
         hold_reward |-> hold_reward,
         advantage |-> FSub(reward.net_reward, hold_reward.net_reward),
         reasoning |-> generate_reasoning(reward, decision)]
        : decision \in {/\ reward.is_profitable
                        /\ FGt(reward.roi_pct, min_roi_threshold)
                        /\ FGt(reward.net_reward, hold_reward.net_reward)} })
        : reward \in {calculate_net_reward(pre_position, post_position, pool,
                                           gas_cost_eth, F(24, 0))},
          hold_reward \in {calculate_hold_reward(pre_position, pool, ZERO, F(24, 0))} })

\* PositionState(...): a funded position holds 0.5 token0, 1000 token1 and fees
PositionState(range, funded, current_tick, current_price) ==
    [lower_tick |-> range[1], upper_tick |-> range[2], liquidity |-> F(1, 18),
     token0_balance |-> IF funded THEN F(5, -1) ELSE ZERO,
     token1_balance |-> IF funded THEN F(1000, 0) ELSE ZERO,
     current_tick |-> current_tick, current_price |-> current_price,
     fees_earned_0 |-> IF funded THEN F(1, -3) ELSE ZERO,
     fees_earned_1 |-> IF funded THEN F(2, 0) ELSE ZERO]

\* PoolState(fee_tier=3000, volume_24h=..., tvl=50_000_000)
PoolState(volume_24h) ==
    [fee_tier |-> 3000, volume_24h |-> volume_24h, tvl |-> F(5, 7),
     token0_decimals |-> 18, token1_decimals |-> 6,
     active_liquidity_ratio |-> F(3, -1)]

\* the positions before the rebalance
PrePositions ==
    { PositionState(range, funded, tick, price) :
        range \in { <<-20000, 20000>>, <<0, 20000>>, <<60000, 80000>>,
                    <<890000, 900000>> },
        funded \in BOOLEAN, tick \in {0, 70000},
        price \in {ZERO, ONE, F(1096, 0), F(2000, 0)} }

\* the positions proposed for pre: a new range at the same tick and price
PostPositions(pre) ==
    { PositionState(range, funded, pre.current_tick, pre.current_price) :
        range \in { <<-20000, 20000>>, <<60000, 80000>> }, funded \in BOOLEAN }

Pools == { PoolState(ZERO), PoolState(F(1, 7)) }

GasCosts == { ZERO, F(1, -2), F(5, 0) }

RoiThresholds == { F(-1, 0), ZERO, F(1, -1), F(5, 0) }

\* RewardCalculator().calculate_net_reward(pre, post, pool, gas_cost_eth)
NetRewardCall ==
    \E pre \in PrePositions, pool \in Pools, gas_cost_eth \in GasCosts :
    \E post \in PostPositions(pre) :
        Called("calculate_net_reward",
               [pre_position |-> pre, post_position |-> post, pool |-> pool,
                gas_cost_eth |-> gas_cost_eth], "",
               calculate_net_reward(pre, post, pool, gas_cost_eth, F(24, 0)))

\* RewardCalculator().should_rebalance(pre, post, pool, gas_cost_eth, min_roi_threshold)
ShouldRebalanceCall ==
    \E pre \in PrePositions, pool \in Pools, gas_cost_eth \in GasCosts,
       min_roi_threshold \in RoiThresholds :
    \E post \in PostPositions(pre) :
        Called("should_rebalance",
               [pre_position |-> pre, post_position |-> post, pool |-> pool,
                gas_cost_eth |-> gas_cost_eth,
                min_roi_threshold |-> min_roi_threshold], "",
               should_rebalance(pre, post, pool, gas_cost_eth, min_roi_threshold))

\* the conversion call sites ---------------------------------------------
\* UnitConverter.to_eth(value, unit, eth_price_usd)
ToEthCall ==
    \E value \in {F(-5, 0), ZERO, F(1845, 0)}, u \in UnitConfigs :
        Called("to_eth", [value |-> value, unit |-> u[1], eth_price_usd |-> u[2]],
               IF to_eth_raises(value, u[1], u[2]) THEN "ValueError" ELSE "",
               IF to_eth_raises(value, u[1], u[2]) THEN None
               ELSE Some(to_eth(value, u[1], u[2])))

\* RiskManager().calculate_position_value(state.position, state): its try/except
\* turns every exception of the conversion into the return value 0.0
PositionValueCall ==
    \E s \in CallSnapshots :
        Called("calculate_position_value", [state |-> s], "",
               calculate_position_value(s.position, s))

\* FeatureEngineering().extract_features(state): the outer handler logs the
\* exception and returns np.zeros(20)
FeaturesCall ==
    \E s \in CallSnapshots :
        Called("extract_features", [state |-> s], "", extract_features(s))

\* UniswapV3Math.price_to_tick(UniswapV3Math.tick_to_price(t)) --------------
\* For the round trip a price is kept as its logarithm to base 1.0001 in fixed
\* point, LOG_SCALE units to the tick.  The float 1.0001 ** tick and the
\* quotient math.log(price) / math.log(1.0001) are each rounded; the sum of the
\* roundings, in these units, is any value within MaxRoundingErr of the exact one
\* (the rounding of a double is far smaller than one unit).
LOG_SCALE == 1000

MaxRoundingErr == 1

\* 1.0001 ** max(MIN_TICK, min(MAX_TICK, tick)), a positive float
tick_to_price_log(tick, rounding) ==
    [positive |-> TRUE, log |-> clamp_tick(tick) * LOG_SCALE + rounding]

\* price_to_tick with the price taken for a square-root price (exponent doubled)
price_to_tick_from_sqrt(price) ==
    IF ~price.positive THEN 0
    ELSE clamp_tick((2 * price.log) \div LOG_SCALE)

\* int(math.floor(math.log(price) / math.log(1.0001))), clamped; 0 for price <= 0
price_to_tick(price) ==
    IF ~price.positive THEN 0
    ELSE clamp_tick(price.log \div LOG_SCALE)

TickSamples ==
    { MIN_TICK - 1, MIN_TICK, MIN_TICK + 1, -70000, -1, 0, 1, 70000,
      MAX_TICK - 1, MAX_TICK, MAX_TICK + 1 }

\* price_to_tick(tick_to_price(tick)), or price_to_tick of a price <= 0
PriceToTickCall ==
    \/ \E tick \in TickSamples, rounding \in -MaxRoundingErr..MaxRoundingErr :
          Called("price_to_tick",
                 [tick |-> Some(tick), price |-> tick_to_price_log(tick, rounding)], "",
                 price_to_tick(tick_to_price_log(tick, rounding)))
    \/ Called("price_to_tick", [tick |-> None, price |-> [positive |-> FALSE, log |-> 0]],
              "", price_to_tick([positive |-> FALSE, log |-> 0]))

\* AIEngine()._determine_action(reward, confidence, risk_level, state) -------
\* the snapshots of the direct calls, in and out of range, with and without a
\* reported price impact
PolicySnapshots ==
    { [s EXCEPT !.price_impact = impact, !.extra.inRange = in_range] :
        s \in CallSnapshots, impact \in {"None", "high"}, in_range \in BOOLEAN }

DetermineActionCall ==
    \E reward \in {F(-1, -2), ZERO, F(2, -2), F(6, -2), F(2, -1)},
       confidence \in {F(4, -1), F(6, -1), F(72, -2), F(78, -2), F(85, -2)},
       risk_level \in {"low", "high"},
       s \in PolicySnapshots :
        Called("determine_action",
               [reward |-> reward, confidence |-> confidence,
                risk_level |-> risk_level, state |-> s], "",
               determine_action(reward, confidence, risk_level, s))

\* RiskManager().assess_risk(state, predicted_reward) ----------------------
\* the snapshots of the direct calls, as they are and with the hints of a price
\* reported out of bounds at a deviation of 2% against a threshold of 5%
AssessRiskCall ==
    \E s \in CallSnapshots, hinted \in BOOLEAN, reward \in {F(5, -2)} :
    \E snapshot \in { IF hinted
                      THEN [s EXCEPT !.deviation_pct = Some(F(2, 0)),
                                     !.threshold_pct = Some(F(5, 0)),
                                     !.within_bounds = "False"]
                      ELSE s } :
        Called("assess_risk", [state |-> snapshot, predicted_reward |-> reward], "",
               [risks |-> sub_risks(snapshot), risk |-> assess_risk(snapshot, reward)])

\* AIEngine()._generate_params(action, state) ------------------------------
GenerateParamsCall ==
    \E action \in {"rebalance", "reduce"},
       volatility \in {NaN, F(-1, -1), ZERO, F(5, -2), F(1, -1), F(2, -1), F(25, -2),
                       F(45, -2), ONE},
       current_tick \in {-70000, -60, 0, 7, 150000} :
    \E s \in { [MkState(TRUE, TRUE, "eth", None, "eq", F(10, 0), F(5, -2), BaseVolatility,
                        "none", TRUE)
                  EXCEPT !.volatility_24h = volatility,
                         !.extra.currentTick = current_tick] } :
        Called("generate_params", [action |-> action, state |-> s], "",
               generate_params(action, s))

\* END OF DIRECT CALLS
NextCalls ==
    \/ ShouldExecuteCall
    \/ LoadCall
    \/ ImpermanentLossCall
    \/ NetRewardCall
    \/ ShouldRebalanceCall
    \/ ToEthCall
    \/ PositionValueCall
    \/ FeaturesCall
    \/ PriceToTickCall
    \/ DetermineActionCall
    \/ AssessRiskCall
    \/ GenerateParamsCall

SpecCalls == InitCalls /\ [][NextCalls]_vars

(***************************************************************************)
(* Training and automatic retraining (auto_retrain.py)                     *)
(***************************************************************************)
\* trainings a run makes, direct ones and those inside retrain
MaxTrainings == 4

\* the blob joblib.dump writes: it holds time.time(), so every training's differs
blob(n) ==
    CASE n = 1 -> "model_v1"
      [] n = 2 -> "model_v2"
      [] n = 3 -> "model_v3"
      [] OTHER -> "model_v4"

\* ModelEnsemble.save of the n-th trained ensemble: the blob at path and its
\* digest at path + '.sha256'
saved_artifact(n) == Some([content |-> blob(n), is_trained |-> TRUE, has_models |-> TRUE])
saved_checksum(n) == Some(sha256_hexdigest(blob(n)))

\* train_model(history, model path): raises before saving when the data is missing
\* or has fewer than 50 samples, else saves the ensemble at the model path
DirectTrain ==
    /\ model_dir.trained < MaxTrainings
    /\ \E enough_data \in BOOLEAN :
         model_dir' =
           IF ~enough_data THEN [model_dir EXCEPT !.returned = "train_raised"]
           ELSE [model_dir EXCEPT !.model = saved_artifact(model_dir.trained + 1),
                                  !.model_sha = saved_checksum(model_dir.trained + 1),
                                  !.trained = model_dir.trained + 1,
                                  !.returned = "trained"]
    /\ UNCHANGED <<state, ensemble, stats, decision_history, recent_actions,
                   predict_calls, ret, call, features_out, helper_call, threads>>

\* _validate_model(path): load with default arguments, a trained ensemble with
\* models, and a prediction that does not raise
validate_model(artifact, checksum, predict_ok) ==
    /\ load_error([has_ml |-> TRUE, artifact |-> artifact, checksum |-> checksum], FALSE) = ""
    /\ load([has_ml |-> TRUE, artifact |-> artifact, checksum |-> checksum], FALSE).is_trained
    /\ predict_ok

\* the model directory after retrain() and the value it returns
retrain(dir, samples_ok, train_ok, predict_ok) ==
    IF ~samples_ok THEN [dir EXCEPT !.returned = "False"]
    ELSE IF ~train_ok
         THEN [dir EXCEPT !.backup = IF dir.model # None THEN dir.model ELSE dir.backup,
                          !.returned = "False"]
    ELSE IF validate_model(saved_artifact(dir.trained + 1), saved_checksum(dir.trained + 1),
                           predict_ok)
         THEN [dir EXCEPT !.backup = IF dir.model # None THEN dir.model ELSE dir.backup,
                          !.model = saved_artifact(dir.trained + 1),
                          !.temp = None,
                          !.temp_sha = saved_checksum(dir.trained + 1),
                          !.trained = dir.trained + 1,
                          !.deployed = dir.deployed + 1,
                          !.returned = "True"]
         ELSE [dir EXCEPT !.backup = IF dir.model # None THEN dir.model ELSE dir.backup,
                          !.temp = None,
                          !.temp_sha = saved_checksum(dir.trained + 1),
                          !.trained = dir.trained + 1,
                          !.returned = "False"]

\* AutoRetrainer.retrain(): prepare the data, back the model up, train to
\* model_temp.joblib, validate it, move it over the model path
Retrain ==
    /\ model_dir.trained < MaxTrainings
    /\ \E samples_ok \in BOOLEAN, train_ok \in BOOLEAN, predict_ok \in BOOLEAN :
         model_dir' = retrain(model_dir, samples_ok, train_ok, predict_ok)
    /\ UNCHANGED <<state, ensemble, stats, decision_history, recent_actions,
                   predict_calls, ret, call, features_out, helper_call, threads>>

NextRetrain ==
    \/ DirectTrain
    \/ Retrain

SpecRetrain == InitCalls /\ [][NextRetrain]_vars

(***************************************************************************)
(* Properties                                                              *)
(***************************************************************************)
\* the last decide call returned from the try body / from the except branch
Returned == call.made /\ call.error = ""

Failed == call.made /\ call.error # ""

\* the decision the last decide call returned
Ret == ret[1]

\* x is a finite float
IsFinite(x) == ~IsNaN(x) /\ x # NEG_INF

InUnitInterval(x) == IsFinite(x) /\ FGe(x, ZERO) /\ FLe(x, ONE)

\* the estimator produces a prediction: loaded, trained and predict succeeds
EstimatorWorks == ensemble.present /\ ensemble.is_trained /\ ~ensemble.fails

\* C1: every decide call returns a Decision; a call in which a step raised
\* (None, a snapshot without a position, a USD price without an ETH/USD rate)
\* returns hold with confidence 0.05, risk level high and the exception's text
\* as its reason.
C1_FailureReturnsFallback ==
    call.made =>
        /\ ret # None
        /\ call.error = validate_state_error(call.arg)
        /\ Failed =>
              /\ Ret.action = "hold"
              /\ Ret.confidence = F(5, -2)
              /\ Ret.risk_level = "high"
              /\ Ret.reason = call.error
              /\ Ret.reason \in {MISSING_POSITION, USD_ERROR}

C1_Witness_NoneInput ==
    /\ Failed
    /\ ~call.arg.present
    /\ Ret.reason = MISSING_POSITION
    /\ stats.errors = 1

\* C2: a returned Decision whose action is not hold meets none of the five
\* blocking conditions of should_execute on its snapshot (gas price over 200
\* gwei, position value not positive, gas cost over the ETH ceiling, gas cost
\* over 12.5% of the value, risk level high with confidence below 0.8); a
\* snapshot with gas price 1000 gwei yields hold.
C2_NonHoldPassesSafetyGate ==
    Returned =>
        /\ Ret.action # "hold" => block_reasons(Ret, state) = {}
        /\ call.arg.gas_price = F(1000, 0) => Ret.action = "hold"

\* C3: a returned Decision has confidence in [0, 1], one of the four actions,
\* one of the three risk levels and, on the non-error path, a risk score in
\* [0, 1], also after the safety-block reduction and the repeated-action
\* dampening.
C3_DecisionInRange ==
    call.made =>
        /\ InUnitInterval(Ret.confidence)
        /\ Ret.action \in {"hold", "rebalance", "reduce", "close"}
        /\ Ret.risk_level \in {"low", "medium", "high"}
        /\ Returned => InUnitInterval(Ret.metadata.risk_score)

C3_Witness_BlockedAndDampened ==
    /\ Returned
    /\ call.blocked
    /\ call.dampened
    /\ FLt(Ret.confidence, F(5, -2))

\* C4: for a snapshot whose current price is NaN, decide returns hold with risk
\* level high and a reason carrying an error marker (the text 'error', as the
\* test reads it, or the fallback's error flag).
C4_NaNPriceGivesErrorHold ==
    call.made /\ call.arg.present /\ IsNaN(call.arg.current_price) =>
        /\ Ret.action = "hold"
        /\ Ret.risk_level = "high"
        /\ (Contains(Ret.reason, "error") \/ "error" \in DOMAIN Ret.metadata)

\* C5: decide marks a decision safety-blocked (reason annotated, confidence
\* reduced, blocked_decisions incremented) only when one of the five blocking
\* conditions holds for it; otherwise, also for a decision the policy already
\* resolved to hold, it returns the reason and confidence of the earlier stages.
C5_BlockedOnlyByGateCondition ==
    Returned /\ ~call.dampened /\ block_reasons(call.decision, state) = {} =>
        /\ ~call.blocked
        /\ Ret.reason = call.decision.reason
        /\ Ret.confidence = call.decision.confidence

\* C6: with the estimator absent, untrained or failing, decide calls predict at
\* most once per call, takes reward and confidence from the heuristic, returns
\* a non-error Decision tagged rule_based or rule_fallback, and counts the call
\* as a rule decision, never as an ML decision.
C6_EstimatorFallback ==
    ~EstimatorWorks =>
        /\ stats.ml_decisions = 0
        /\ stats.rule_decisions = stats.total_decisions - stats.errors
        /\ predict_calls <= stats.rule_decisions
        /\ (~ensemble.present \/ ~ensemble.is_trained) => predict_calls = 0
        /\ Returned =>
              /\ call.stage.predict_called <= 1
              /\ call.stage.reward = heuristic_prediction(state, call.features).reward
              /\ call.stage.confidence =
                     heuristic_prediction(state, call.features).confidence
              /\ Ret.score = call.stage.reward
              /\ "error" \notin DOMAIN Ret.metadata
              /\ Ret.reason \in {"rule_based", "rule_based_safety_blocked",
                                 "rule_fallback", "rule_fallback_safety_blocked"}
              /\ (Ret.reason \in {"rule_fallback", "rule_fallback_safety_blocked"})
                     = (ensemble.present /\ ensemble.is_trained)

C6_Witness_PredictFailed ==
    /\ Returned
    /\ ensemble.present /\ ensemble.is_trained /\ ensemble.fails
    /\ predict_calls = 1
    /\ stats.rule_decisions = 1
    /\ Ret.reason = "rule_fallback"

\* C7: with no estimator loaded, the Decision returned for a valid snapshot has
\* a reason containing 'heuristic' (the reasons of the model are lower case).
C7_ReasonNamesHeuristic ==
    Returned /\ ~ensemble.present => Contains(Ret.reason, "heuristic")

\* C8: decide leaves every field of the snapshot passed to it as it was.
C8_SnapshotUnchanged ==
    Returned => state = call.arg

\* C9: for the unit tags eth, wei and gwei, a snapshot whose current price
\* equals its 24h TWAP (and that carries no deviation of the caller's) yields a
\* price deviation of 0 in the feature vector and price and IL terms of 0 in
\* the risk score.
C9_EqualPriceGivesZeroDeviation ==
    /\ Returned
    /\ call.arg.price_unit \in {"eth", "wei", "gwei"}
    /\ call.arg.current_price = call.arg.twap_24h
    /\ call.arg.deviation_pct = None
    => /\ call.features[1] = ZERO
       /\ call.features[2] = ZERO
       /\ call.risks.price = ZERO
       /\ call.risks.il = ZERO

\* C10: extract_features returns 20 entries, one per feature name, each finite
\* and within [-10, 10], and the all-zero vector when extraction fails as a
\* whole; so does the call decide makes.
FeatureVectorOk(f) ==
    /\ Len(f) = 20
    /\ Len(f) = Len(get_feature_names)
    /\ \A i \in 1..Len(f) :
          /\ IsFinite(f[i])
          /\ FGe(f[i], FNeg(F(10, 0)))
          /\ FLe(f[i], F(10, 0))

C10_FeatureVector ==
    /\ features_out # None =>
          /\ FeatureVectorOk(features_out[1].features)
          /\ extract_features_fails(features_out[1].arg) =>
                 features_out[1].features = zeros20
    /\ Returned => FeatureVectorOk(call.features)

C10_Witness_ExtractionFailed ==
    /\ features_out # None
    /\ features_out[1].arg.present
    /\ features_out[1].arg.position.present
    /\ features_out[1].arg.price_unit = "usd"
    /\ features_out[1].arg.extra.eth_price_usd = None
    /\ features_out[1].features = zeros20

\* C11: for a snapshot priced in ETH with a positive price, the extracted
\* feature price_dev_24h is |current price - 24h TWAP| / 24h TWAP as a plain
\* fraction, and price_dev_ref (no reference-price override) is the same value.
C11_DeviationFeatureIsFraction ==
    (/\ features_out # None
     /\ features_out[1].arg.present
     /\ features_out[1].arg.position.present
     /\ features_out[1].arg.price_unit = "eth"
     /\ ~IsNaN(features_out[1].arg.current_price)
     /\ FGt(features_out[1].arg.current_price, ZERO))
    => /\ features_out[1].features[1] =
              FDiv(FAbs(FSub(features_out[1].arg.current_price,
                             features_out[1].arg.twap_24h)),
                   features_out[1].arg.twap_24h)
       /\ features_out[1].features[2] = features_out[1].features[1]

\* the last direct call was op
CalledOp(op) == helper_call.made /\ helper_call.op = op

\* C12: should_execute (max_gas_eth 0.01, default gas limits) returns true for a
\* rebalance decision with risk level high and confidence of 0.8 or more on a
\* snapshot with gas price 50 gwei whose position value makes the gas cost far
\* less than 12.5% of it.
C12_HighConfidenceExecutes ==
    (/\ CalledOp("should_execute")
     /\ helper_call.args.decision.action = "rebalance"
     /\ helper_call.args.decision.risk_level = "high"
     /\ FGe(helper_call.args.decision.confidence, F(8, -1))
     /\ helper_call.args.state.gas_price = F(50, 0)
     /\ helper_call.args.state.gas_unit = "gwei"
     /\ FGe(calculate_position_value(helper_call.args.state.position,
                                     helper_call.args.state), F(1000, 0)))
    => helper_call.result = TRUE

\* the checksum file of the last load call exists and does not match the artifact
ChecksumMismatch ==
    /\ helper_call.args.files.artifact # None
    /\ helper_call.args.files.checksum # None
    /\ sha256_hexdigest(helper_call.args.files.artifact[1].content)
           # strip(helper_call.args.files.checksum[1])

\* C13: load raises a not-found error when the artifact is absent; when the
\* artifact's checksum differs from its checksum file, load raises an integrity
\* error unless allow_unverified is set, and with allow_unverified it returns
\* the loaded ensemble.
C13_LoadChecksAndOverride ==
    (CalledOp("load") /\ helper_call.args.files.has_ml) =>
        /\ helper_call.args.files.artifact = None =>
               helper_call.raised = "FileNotFoundError"
        /\ (ChecksumMismatch /\ ~helper_call.args.allow_unverified) =>
               helper_call.raised = "ValueError: Model checksum mismatch"
        /\ (ChecksumMismatch /\ helper_call.args.allow_unverified) =>
               /\ helper_call.raised = ""
               /\ helper_call.result # None

\* C14: every calculate_net_reward call returns net_reward = total_benefit -
\* total_cost, and total_cost is the gas cost plus the slippage cost plus the
\* crystallized IL: the gas cost is in total_cost, and so in net_reward, once.
C14_NetRewardAccounting ==
    CalledOp("calculate_net_reward") =>
        /\ helper_call.result.net_reward =
               FSub(helper_call.result.total_benefit, helper_call.result.total_cost)
        /\ helper_call.result.gas_cost = helper_call.args.gas_cost_eth
        /\ helper_call.result.total_cost =
               FAdd(FAdd(helper_call.result.gas_cost, helper_call.result.slippage_cost),
                    helper_call.result.il_crystallized)

\* a call with a gas cost, a slippage cost and a benefit, all positive
C14_Witness_AllTermsPositive ==
    /\ CalledOp("calculate_net_reward")
    /\ FGt(helper_call.result.gas_cost, ZERO)
    /\ FGt(helper_call.result.slippage_cost, ZERO)
    /\ FGt(helper_call.result.il_crystallized, ZERO)
    /\ FGt(helper_call.result.total_benefit, ZERO)

\* C15: should_rebalance answers true only if the rebalance net reward is
\* positive, its ROI percentage exceeds min_roi_threshold and its net reward
\* exceeds the hold counterfactual's; it never answers true when the position
\* value before the rebalance is not positive.
C15_RebalanceOnlyWhenWorthIt ==
    (CalledOp("should_rebalance") /\ helper_call.result.should_rebalance) =>
        /\ FGt(helper_call.result.rebalance_reward.net_reward, ZERO)
        /\ FGt(helper_call.result.rebalance_reward.roi_pct,
               helper_call.args.min_roi_threshold)
        /\ FGt(helper_call.result.rebalance_reward.net_reward,
               helper_call.result.hold_reward.net_reward)
        /\ FGt(position_value_in_token1(helper_call.args.pre_position), ZERO)

\* C15 (amended): should_rebalance answers true only if the rebalance net
\* reward is positive, its ROI percentage exceeds min_roi_threshold and its net
\* reward exceeds the hold counterfactual's; for a min_roi_threshold of 0 or
\* more it never answers true when the position value before the rebalance is
\* not positive.
C15_RebalanceOnlyWhenWorthIt_Amended ==
    (CalledOp("should_rebalance") /\ helper_call.result.should_rebalance) =>
        /\ FGt(helper_call.result.rebalance_reward.net_reward, ZERO)
        /\ FGt(helper_call.result.rebalance_reward.roi_pct,
               helper_call.args.min_roi_threshold)
        /\ FGt(helper_call.result.rebalance_reward.net_reward,
               helper_call.result.hold_reward.net_reward)
        /\ FGe(helper_call.args.min_roi_threshold, ZERO) =>
               FGt(position_value_in_token1(helper_call.args.pre_position), ZERO)

\* a rebalance recommended at the default threshold of 0.1
C15_Witness_Recommended ==
    /\ CalledOp("should_rebalance")
    /\ helper_call.args.min_roi_threshold = F(1, -1)
    /\ helper_call.result.should_rebalance

\* C16: calculate_impermanent_loss(p, p, lo, hi) is exactly 0 for every price
\* p > 0 and every tick range lo < hi, with the price below, inside or above
\* the range.
C16_NoMoveNoLoss ==
    (/\ CalledOp("calculate_impermanent_loss")
     /\ helper_call.args.entry_price = helper_call.args.current_price
     /\ FGt(helper_call.args.entry_price, ZERO)
     /\ helper_call.args.lower_tick < helper_call.args.upper_tick)
    => helper_call.raised = "" /\ helper_call.result = ZERO

\* a call with equal prices inside a range that gives a concentration above 1
C16_Witness_InsideRange ==
    /\ CalledOp("calculate_impermanent_loss")
    /\ helper_call.args.entry_price = helper_call.args.current_price
    /\ FGt(FSqrt(helper_call.args.current_price),
           tick_to_sqrt_price(helper_call.args.lower_tick))
    /\ FLt(FSqrt(helper_call.args.current_price),
           tick_to_sqrt_price(helper_call.args.upper_tick))
    /\ FGt(concentration(FSqrt(helper_call.args.entry_price),
                         tick_to_sqrt_price(helper_call.args.lower_tick),
                         tick_to_sqrt_price(helper_call.args.upper_tick)), ONE)
    /\ helper_call.result = ZERO

\* C17: a USD->ETH conversion with no ETH/USD price supplied or configured
\* reports an error at every call site: to_eth raises, and the position value
\* and the feature computation over such a snapshot raise too instead of
\* returning a value
UsdWithoutPrice(unit, eth_price_usd) ==
    unit = "usd" /\ usd_price(eth_price_usd) = None

C17_UsdWithoutPriceIsAnError ==
    /\ CalledOp("to_eth")
         /\ UsdWithoutPrice(helper_call.args.unit, helper_call.args.eth_price_usd)
       => helper_call.raised # ""
    /\ (CalledOp("calculate_position_value") \/ CalledOp("extract_features"))
         /\ UsdWithoutPrice(helper_call.args.state.price_unit,
                            helper_call.args.state.extra.eth_price_usd)
       => helper_call.raised # ""

C19_RebalanceNeedsReward ==
    CalledOp("determine_action") /\ helper_call.result = "rebalance"
    => \/ /\ FGt(helper_call.args.confidence, F(75, -2))
          /\ FGt(helper_call.args.reward,
                 FDiv(dynamic_thresh(helper_call.args.state,
                                     to_gwei(helper_call.args.state.gas_price,
                                             helper_call.args.state.gas_unit)),
                      F(100, 0)))
       \/ /\ FGt(helper_call.args.confidence, F(8, -1))
          /\ FGt(helper_call.args.reward, F(5, -2))
          /\ helper_call.args.risk_level # "high"
       \/ /\ ~helper_call.args.state.extra.inRange
          /\ FGt(helper_call.args.confidence, F(5, -1))
          /\ FGt(helper_call.args.reward, F(1, -2))

\* C20: the policy stage returns hold whenever the gas price is above 120 gwei,
\* or the gas cost of a rebalance is above 12.5% of the position value (any
\* position value >= 0), or the price impact is high or very_high while the
\* position value is below 5
C20_FastRejectsHold ==
    CalledOp("determine_action")
      /\ \/ FGt(to_gwei(helper_call.args.state.gas_price, helper_call.args.state.gas_unit),
                F(120, 0))
         \/ FGt(calculate_gas_cost(helper_call.args.state.gas_price,
                                   helper_call.args.state.gas_unit, "rebalance"),
                FMul(F(125, -3),
                     calculate_position_value(helper_call.args.state.position,
                                              helper_call.args.state)))
         \/ /\ price_impact_high(helper_call.args.state)
            /\ FLt(calculate_position_value(helper_call.args.state.position,
                                            helper_call.args.state), F(5, 0))
    => helper_call.result = "hold"

\* C21: the returned confidence is multiplied by 0.7 exactly when the window
\* of recent actions, the current call's final action included, holds 20 equal
\* entries; otherwise it is returned as it was after the safety gate; calls
\* that end in the error fallback add nothing to the window.
BeforeDampening == IF call.blocked THEN safety_blocked(call.decision) ELSE call.decision

C21_DampenedExactlyOnFullEqualWindow ==
    /\ Len(recent_actions) =
           IF stats.total_decisions - stats.errors < 20
           THEN stats.total_decisions - stats.errors ELSE 20
    /\ Returned =>
          /\ recent_actions[Len(recent_actions)] = Ret.action
          /\ Ret.confidence =
                 IF Len(recent_actions) = 20
                    /\ \A i \in 1..20 : recent_actions[i] = Ret.action
                 THEN FMul(BeforeDampening.confidence, F(7, -1))
                 ELSE BeforeDampening.confidence
          /\ FGt(BeforeDampening.confidence, ZERO)

\* the 21st call is dampened on a window that an error call did not enter
C21_Witness_DampenedAfterError ==
    /\ Returned /\ call.dampened
    /\ stats.errors = 1 /\ stats.total_decisions = 21

\* C22: after n decide calls on valid snapshots the history holds the records
\* of the most recent min(n, 5000) of them in call order: one record per call,
\* never more than the capacity, the oldest evicted first.
C22_HistoryHoldsMostRecent ==
    call.made /\ state.present =>
       /\ Len(decision_history) =
              IF stats.total_decisions < 5000 THEN stats.total_decisions ELSE 5000
       /\ \A i \in 1..Len(decision_history) :
              decision_history[i].timestamp =
                  call.arg.timestamp - (Len(decision_history) - i)

\* the history is full and an append has evicted: 5000 records, the oldest
\* taken 4999 seconds before the latest, after more than 5000 calls
C22_Witness_Evicted ==
    /\ call.made /\ state.present /\ stats.total_decisions > 5000
    /\ Len(decision_history) = 5000
    /\ decision_history[1].timestamp = call.arg.timestamp - 4999
    /\ decision_history[5000].timestamp = call.arg.timestamp

\* C23: in assess_risk each of the six sub-risks (volatility, price deviation,
\* out of range, IL, gas, bounds excess) lies in [0, 1], before weighting
C23_SubRisksInUnitInterval ==
    CalledOp("assess_risk") =>
        /\ InUnitInterval(helper_call.result.risks.volatility)
        /\ InUnitInterval(helper_call.result.risks.price)
        /\ InUnitInterval(helper_call.result.risks.range)
        /\ InUnitInterval(helper_call.result.risks.il)
        /\ InUnitInterval(helper_call.result.risks.gas)
        /\ InUnitInterval(helper_call.result.risks.bounds)

\* C24: when several threads call decide on one engine, each with its own
\* snapshot, the writes to the engine's shared state are synchronized: once all
\* calls have returned no counter has lost an update (total_decisions is the
\* number of calls, the per-action counters add up to the calls that returned a
\* decision), every such decision is in the history exactly once, and only the
\* calls on an invalid snapshot took the error path.
AllReturned == threads # <<>> /\ \A t \in DOMAIN threads : threads[t].pc = "done"

C24_ConcurrentWritesSynchronized ==
    AllReturned =>
       /\ stats.total_decisions = NumThreads
       /\ stats.errors =
              Cardinality({t \in DOMAIN threads :
                              validate_state_error(threads[t].snapshot) # ""})
       /\ \A t \in DOMAIN threads :
              "error" \in DOMAIN threads[t].ret[1].metadata
              <=> validate_state_error(threads[t].snapshot) # ""
       /\ \A t \in DOMAIN threads :
              validate_state_error(threads[t].snapshot) = ""
              => Cardinality({i \in 1..Len(decision_history) :
                                 decision_history[i].timestamp =
                                     threads[t].snapshot.timestamp}) = 1
       /\ stats.actions.rebalance + stats.actions.reduce + stats.actions.hold
              + stats.actions.close = NumThreads - stats.errors

\* C25: for a rebalance _generate_params returns a range with
\* new_lower_tick < current_tick < new_upper_tick, both bounds multiples of the
\* tick spacing 60, whose half-width before snapping is (1 + volatility) x 5%
\* at 2000 ticks per 100%, the volatility floored at 0.1 (so that a higher
\* volatility never gives a narrower range)
FlooredVolatility(v) == IF IsNaN(v) \/ FLt(v, F(1, -1)) THEN F(1, -1) ELSE v

C25_RebalanceRange ==
    CalledOp("generate_params") /\ helper_call.args.action = "rebalance" =>
       /\ helper_call.result.new_lower_tick < helper_call.args.state.extra.currentTick
       /\ helper_call.args.state.extra.currentTick < helper_call.result.new_upper_tick
       /\ helper_call.result.new_lower_tick % 60 = 0
       /\ helper_call.result.new_upper_tick % 60 = 0
       /\ helper_call.result.range_percentage =
              FMul(FAdd(ONE, FlooredVolatility(helper_call.args.state.volatility_24h)),
                   F(5, 0))
       /\ \A half \in
              { TruncInt(FMul(FDiv(helper_call.result.range_percentage, F(100, 0)),
                              F(2000, 0))) } :
             /\ helper_call.result.new_lower_tick <=
                    helper_call.args.state.extra.currentTick - half
             /\ helper_call.args.state.extra.currentTick - half
                    < helper_call.result.new_lower_tick + 60
             /\ helper_call.result.new_upper_tick >=
                    helper_call.args.state.extra.currentTick + half
             /\ helper_call.args.state.extra.currentTick + half
                    > helper_call.result.new_upper_tick - 60

\* C26: after any sequence of decide calls by one caller, total_decisions =
\* errors + the sum of the per-action counters, and blocked_decisions <= the
\* hold counter (each call increments the error counter or one action counter)
C26_StatsAddUp ==
    /\ stats.total_decisions =
           stats.errors + stats.actions.rebalance + stats.actions.reduce
               + stats.actions.hold + stats.actions.close
    /\ stats.blocked_decisions <= stats.actions.hold

\* a run of 21 calls with an error call, a rebalance and a blocked call
C26_Witness_EveryCounterMoved ==
    /\ stats.total_decisions = 21
    /\ stats.errors >= 1
    /\ stats.actions.rebalance >= 1
    /\ stats.blocked_decisions >= 1

\* C27: every Decision that decide returns with action hold carries no
\* recommended parameters, also when the policy stage chose rebalance and the
\* safety gate then forced hold
C27_HoldCarriesNoParams ==
    call.made /\ Ret.action = "hold" => Ret.recommended_params = None

\* C28: the record a decide call appends to the history holds the same action,
\* confidence and reason as the Decision the call returns, also when the
\* repeated-action dampening fires
C28_RecordMatchesReturned ==
    Returned =>
       /\ decision_history[Len(decision_history)].decision.action = Ret.action
       /\ decision_history[Len(decision_history)].decision.confidence = Ret.confidence
       /\ decision_history[Len(decision_history)].decision.reason = Ret.reason

\* the deployed model path as ModelEnsemble.load sees it
DeployedFiles ==
    [has_ml |-> TRUE, artifact |-> model_dir.model, checksum |-> model_dir.model_sha]

\* C29: after retrain() returns success, the artifact at the deployed model path
\* passes load's integrity verification with default arguments: a checksum file
\* exists beside it and matches the deployed blob, whatever direct trainings to
\* that path and retrainings came before.
C29_DeployedModelVerifies ==
    model_dir.returned = "True" =>
        /\ model_dir.model_sha # None
        /\ load_error(DeployedFiles, FALSE) = ""

\* the two sums of a breakdown, added in the order the code adds them
CostComponentsSum(breakdown) ==
    FAdd(FAdd(breakdown.gas_cost, breakdown.slippage_cost), breakdown.il_crystallized)

BenefitComponentsSum(breakdown) ==
    FAdd(FAdd(breakdown.fee_improvement, breakdown.range_improvement),
         breakdown.centering_benefit)

\* C30: in every breakdown calculate_net_reward returns, each total equals the
\* sum of the components reported beside it: total_cost = gas_cost + slippage_cost
\* + il_crystallized and total_benefit = fee_improvement + range_improvement +
\* centering_benefit, for all positions, pools and gas costs.
C30_TotalsAreSumsOfComponents ==
    (CalledOp("calculate_net_reward") /\ helper_call.raised = "") =>
        /\ helper_call.result.total_cost = CostComponentsSum(helper_call.result)
        /\ helper_call.result.total_benefit = BenefitComponentsSum(helper_call.result)

====
